---- MODULE Spec2Model ----
(***************************************************************************)
(* Model of the mailbox session engine of Gmail-MCP (ImapService).         *)
(*                                                                         *)
(* One operation at a time runs against one IMAP connection.  The          *)
(* connection, the store and the external collaborators (decoder, file     *)
(* system) are the environment: every event they can deliver is an action  *)
(* whose body is the handler the code registered for it, run to the next   *)
(* point where the code waits for an event (JavaScript runs a handler and  *)
(* the promise continuations it triggers to completion before the next     *)
(* event is delivered).                                                    *)
(*                                                                         *)
(* Strings are sequences of one-character strings, so that trimming,       *)
(* bracket handling and parseInt are computed as the code computes them.   *)
(***************************************************************************)
EXTENDS Integers, Sequences, FiniteSets, TLC

VARIABLES
    op,        \* the operation running: download, peek, content, list, search
    ids,       \* batch: the identifiers (normalizeMessageIds); content: <<id>>
    idType,    \* "uid" or "message-id"
    params,    \* content: format, saveRawToFile; list: count; download: filter
    conn,      \* the Imap connection object of this operation
    promise,   \* the promise the operation returned
    run,       \* locals of the operation's asynchronous flow
    fx,        \* the fetch exchange in progress (event emitter and closure locals)
    log,       \* history: every exchange issued, with its terminal outcome
    seen,      \* store: the uids whose \Seen flag is set
    tmp,       \* temporary storage: the files written, as [path, content]
    nerr,      \* history: number of 'error' events the connection has emitted
    call,      \* a pure helper applied on its own: its name and arguments
    ret        \* the value that helper returned, once it has been applied

vars == <<op, ids, idType, params, conn, promise, run, fx, log, seen, tmp, nerr, call, ret>>

(***************************************************************************)
(* Bounds of the model.                                                    *)
(***************************************************************************)
MaxIds == 2          \* identifiers per batch
MaxMessages == 2     \* messages in the mailbox
MaxConnErrors == 2   \* 'error' events one connection emits

\* the uid of the message with sequence number n (uids are not sequence numbers)
UidOfSeq(n) == n + 1

StoreUids == { UidOfSeq(n) : n \in 1..MaxMessages }
InitSeen == { UidOfSeq(2) }

(***************************************************************************)
(* Strings.                                                                *)
(***************************************************************************)
Digits == <<"0", "1", "2", "3", "4", "5", "6", "7", "8", "9">>

IsDigit(c) == \E d \in 1..10 : Digits[d] = c

DigitVal(c) == (CHOOSE d \in 1..10 : Digits[d] = c) - 1

IsWhitespace(c) == c \in {" ", "\t", "\n", "\r"}

RECURSIVE TrimStart(_)
TrimStart(s) ==
    IF s # <<>> /\ IsWhitespace(Head(s)) THEN TrimStart(Tail(s)) ELSE s

RECURSIVE TrimEnd(_)
TrimEnd(s) ==
    IF s # <<>> /\ IsWhitespace(s[Len(s)])
    THEN TrimEnd(SubSeq(s, 1, Len(s) - 1))
    ELSE s

\* String.prototype.trim
Trim(s) == TrimEnd(TrimStart(s))

StartsWith(s, p) == Len(p) <= Len(s) /\ SubSeq(s, 1, Len(p)) = p

EndsWith(s, p) == Len(p) <= Len(s) /\ SubSeq(s, Len(s) - Len(p) + 1, Len(s)) = p

\* the longest prefix of s made of decimal digits
RECURSIVE DigitPrefix(_)
DigitPrefix(s) ==
    IF s # <<>> /\ IsDigit(Head(s)) THEN <<Head(s)>> \o DigitPrefix(Tail(s)) ELSE <<>>

RECURSIVE DigitsValue(_, _)
DigitsValue(s, acc) ==
    IF s = <<>> THEN acc ELSE DigitsValue(Tail(s), 10 * acc + DigitVal(Head(s)))

NaN == [finite |-> FALSE, val |-> 0]

\* Number.parseInt(s, 10): leading whitespace is skipped, one sign is
\* accepted, the digits up to the first other character are read and the
\* rest is ignored; without a digit the result is NaN.
ParseInt10(s) ==
    LET t    == TrimStart(s)
        neg  == t # <<>> /\ Head(t) = "-"
        body == IF t # <<>> /\ Head(t) \in {"-", "+"} THEN Tail(t) ELSE t
        ds   == DigitPrefix(body)
    IN  IF ds = <<>> THEN NaN
        ELSE [finite |-> TRUE,
              val |-> IF neg THEN 0 - DigitsValue(ds, 0) ELSE DigitsValue(ds, 0)]

\* Number.prototype.toString for a positive integer
RECURSIVE NatToString(_)
NatToString(n) ==
    IF n < 10 THEN <<Digits[n + 1]>>
    ELSE NatToString(n \div 10) \o <<Digits[(n % 10) + 1]>>

\* an optional value: absent (undefined / null) or present
None == <<>>
Some(x) == <<x>>

\* a JavaScript string is truthy iff it is not empty
Truthy(o) == o # None /\ o[1] # <<>>

(***************************************************************************)
(* Inputs.                                                                 *)
(***************************************************************************)
Mailbox == "INBOX"

UidIdPool ==
    { <<"2">>, <<"1">>, <<"0">>, <<"-", "1">>, <<"2", "x">>, <<"x">> }

MessageIdPool ==
    { <<" ", "a", " ">>, <<"<", "a", ">">>, <<"<", ">">>, <<>>, <<" ">> }

IdSeqs(pool) == UNION { [1..n -> pool] : n \in 1..MaxIds }

\* the messageIds argument: one string or a list of strings
OneId(id) == [isArray |-> FALSE, value |-> id]
IdList(list) == [isArray |-> TRUE, value |-> list]

BatchInputs(pool) == { OneId(id) : id \in pool } \cup { IdList(l) : l \in IdSeqs(pool) }

normalizeMessageIds(messageIds) ==
    IF messageIds.isArray THEN messageIds.value ELSE <<messageIds.value>>

\* mutant: the input is not trimmed
buildMessageIdCandidatesUntrimmed(messageId) ==
    LET hasBrackets == StartsWith(messageId, <<"<">>) /\ EndsWith(messageId, <<">">>)
        stripped == SubSeq(messageId, 2, Len(messageId) - 1)
    IN  IF messageId = <<>> THEN <<>>
        ELSE IF hasBrackets
             THEN (IF stripped # <<>> THEN <<messageId, stripped>> ELSE <<messageId>>)
             ELSE << <<"<">> \o messageId \o <<">">>, messageId >>

\* mutant: the raw form is tried before the bracketed form
buildMessageIdCandidatesRawFirst(messageId) ==
    LET trimmed == Trim(messageId)
        hasBrackets == StartsWith(trimmed, <<"<">>) /\ EndsWith(trimmed, <<">">>)
        stripped == SubSeq(trimmed, 2, Len(trimmed) - 1)
    IN  IF trimmed = <<>> THEN <<>>
        ELSE IF hasBrackets
             THEN (IF stripped # <<>> THEN <<trimmed, stripped>> ELSE <<trimmed>>)
             ELSE << trimmed, <<"<">> \o trimmed \o <<">">> >>

buildMessageIdCandidates(messageId) ==
    LET trimmed == Trim(messageId)
        hasBrackets == StartsWith(trimmed, <<"<">>) /\ EndsWith(trimmed, <<">">>)
        stripped == SubSeq(trimmed, 2, Len(trimmed) - 1)
    IN  IF trimmed = <<>> THEN <<>>
        ELSE IF hasBrackets
             THEN (IF stripped # <<>> THEN <<trimmed, stripped>> ELSE <<trimmed>>)
             ELSE << <<"<">> \o trimmed \o <<">">>, trimmed >>

(***************************************************************************)
(* The store and the decoder (external collaborators).                     *)
(***************************************************************************)
S_textplain == <<"t", "e", "x", "t", "/", "p", "l", "a", "i", "n">>
S_pdf == <<"a", "p", "p", "l", "i", "c", "a", "t", "i", "o", "n", "/", "p", "d", "f">>
S_octet == <<"a", "p", "p", "l", "i", "c", "a", "t", "i", "o", "n", "/",
             "o", "c", "t", "e", "t", "-", "s", "t", "r", "e", "a", "m">>

\* a Buffer: its bytes (a token), their count, and the length of the string
\* toString('utf8') gives
Buf(data, bytes, chars) == [data |-> data, bytes |-> bytes, chars |-> chars]

AttNote == [filename |-> Some(<<"n", ".", "t", "x", "t">>), contentType |-> Some(S_textplain),
            content |-> Buf("note", 999, 999), size |-> Some(999)]
AttBig  == [filename |-> Some(<<"b", ".", "t", "x", "t">>), contentType |-> Some(S_textplain),
            content |-> Buf("big", 1000, 1000), size |-> None]
AttPdf  == [filename |-> Some(<<"d", "/", "r", ".", "p", "d", "f">>), contentType |-> Some(S_pdf),
            content |-> Buf("pdf", 3, 3), size |-> Some(3)]
AttAnon == [filename |-> None, contentType |-> Some(S_textplain),
            content |-> Buf("anon", 0, 0), size |-> None]

\* the decoded form of the message with uid u
Decoded(u) ==
    CASE u % 3 = 2 -> [subject |-> Some("s1"), html |-> None,
                       text |-> Some(<<"h", "i">>),
                       textAsHtml |-> Some(<<"<", "p", ">", "h", "i", "<", "/", "p", ">">>),
                       attachments |-> <<AttNote, AttPdf, AttBig>>]
      [] u % 3 = 0 -> [subject |-> None, html |-> Some(<<"<", "b", ">", "x">>),
                       text |-> None, textAsHtml |-> None,
                       attachments |-> <<AttNote, AttAnon>>]
      [] OTHER     -> [subject |-> Some("s3"), html |-> None,
                       text |-> None, textAsHtml |-> None, attachments |-> <<>>]

\* the chunks in which the store delivers the raw message with uid u; a
\* chunk is a Buffer (data: its bytes) or a string (data: its code units)
RawChunks(u) ==
    IF u % 2 = 1
    THEN << [isBuffer |-> TRUE, data |-> <<u, 1>>], [isBuffer |-> FALSE, data |-> <<u, 2>>] >>
    ELSE << [isBuffer |-> TRUE, data |-> <<u, 1>>] >>

\* the UTF-8 encoding of one code unit (surrogates are not modelled)
Utf8Bytes(c) ==
    IF c < 128 THEN <<c>>
    ELSE IF c < 2048 THEN <<192 + (c \div 64), 128 + (c % 64)>>
    ELSE <<224 + (c \div 4096), 128 + ((c \div 64) % 64), 128 + (c % 64)>>

\* Buffer.from(string): the string encoded as UTF-8
RECURSIVE Utf8Encode(_)
Utf8Encode(units) ==
    IF units = <<>> THEN <<>> ELSE Utf8Bytes(Head(units)) \o Utf8Encode(Tail(units))

\* Buffer.isBuffer(chunk) ? chunk : Buffer.from(chunk)
ToBuffer(chunk) ==
    IF chunk.isBuffer THEN chunk ELSE [isBuffer |-> TRUE, data |-> Utf8Encode(chunk.data)]

\* Buffer.concat(chunks): the bytes of the chunks in order
RECURSIVE BufferConcat(_)
BufferConcat(chunks) ==
    IF chunks = <<>> THEN <<>> ELSE Head(chunks).data \o BufferConcat(Tail(chunks))

\* simpleParser: the raw message of uid u decodes to Decoded(u)
simpleParser(raw) ==
    IF raw = <<>>
    THEN [subject |-> None, html |-> None, text |-> None, textAsHtml |-> None,
          attachments |-> <<>>]
    ELSE Decoded(raw[1])

\* the answers a header search can give
SearchAnswers == { None, Some(<<>>), Some(<<3, 2>>) }

\* the header fields and the date the store holds for the message with uid u
HeaderOf(u) == [subject |-> IF u % 2 = 0 THEN Some("s") ELSE None,
                from |-> Some("f"), to |-> None]

DateOf(u) == IF u % 2 = 0 THEN 5 + u ELSE u

\* the hex strings randomBytes(6).toString('hex') can give
Tokens == { <<"a", "1">>, <<"b", "2">> }

(***************************************************************************)
(* Promises and the exchange history.                                      *)
(***************************************************************************)
Pending == [state |-> "pending", value |-> None, error |-> None]

\* resolve / reject of a promise: only the first call settles it
Resolve(p, v) ==
    IF p.state = "pending" THEN [state |-> "resolved", value |-> Some(v), error |-> None] ELSE p
Reject(p, e) ==
    IF p.state = "pending" THEN [state |-> "rejected", value |-> None, error |-> Some(e)] ELSE p

\* an exchange is issued on the connection
Issue(lg, kind, idx, arg) ==
    Append(lg, [kind |-> kind, idx |-> idx, arg |-> arg, outcome |-> "pending", answer |-> <<>>])

\* the terminal event of the outstanding exchange of this kind is delivered
Outstanding(lg, kind) == { j \in 1..Len(lg) : lg[j].kind = kind /\ lg[j].outcome = "pending" }

SettleWith(lg, kind, outcome, answer) ==
    IF Outstanding(lg, kind) = {} THEN lg
    ELSE LET j == CHOOSE x \in Outstanding(lg, kind) : \A y \in Outstanding(lg, kind) : y <= x
         IN  [lg EXCEPT ![j].outcome = outcome, ![j].answer = answer]

Settle(lg, kind, outcome) == SettleWith(lg, kind, outcome, <<>>)

(***************************************************************************)
(* fetchRawByUid and the searches.                                         *)
(***************************************************************************)
\* mutant: the fetch marks the message seen
FetchRawOptionsMarkSeen == [bodies |-> "", struct |-> FALSE, markSeen |-> TRUE]

\* the options of the fetch of a whole raw message
FetchRawOptions == [bodies |-> "", struct |-> FALSE, markSeen |-> FALSE]

\* the options of the header fetch of listMessages and searchMessages
\* (markSeen is not given: the library's default is false)
FetchHeaderOptions == [bodies |-> "HEADER.FIELDS (FROM TO SUBJECT DATE)", struct |-> TRUE]

MarkSeenOf(options) == IF "markSeen" \in DOMAIN options THEN options.markSeen ELSE FALSE

NoFetch == [state |-> "idle", uids |-> <<>>, options |-> FetchRawOptions,
            found |-> FALSE, chunks |-> <<>>, sent |-> 0, promise |-> Pending]

\* imap.fetch([uid], options) with the listeners of fetchRawByUid
NewFetch(uid, options) ==
    [state |-> "open", uids |-> <<uid>>, options |-> options,
     found |-> FALSE, chunks |-> <<>>, sent |-> 0, promise |-> Pending]

NotFoundForUid(uid) == <<"Message not found for UID: ", uid>>

\* the listeners of fetchRawByUid, on its closure f (found, chunks and the
\* promise it returned)
\* fetch.on('message'): found = true
OnFetchMessage(f) == [f EXCEPT !.found = TRUE]

\* stream.on('data'): the chunk is pushed, as a Buffer
OnFetchData(f, chunk) == [f EXCEPT !.chunks = Append(@, ToBuffer(chunk))]

\* fetch.once('error'): reject(err)
OnFetchError(f, err) == [f EXCEPT !.promise = Reject(@, err)]

\* mutant: 'end' resolves with the chunks whether or not a message came
OnFetchEndAlwaysResolves(f) == [f EXCEPT !.promise = Resolve(@, BufferConcat(f.chunks))]

\* fetch.once('end'): not found, or the chunks concatenated
OnFetchEnd(f) ==
    [f EXCEPT !.promise = IF ~f.found THEN Reject(@, NotFoundForUid(f.uids[1]))
                          ELSE Resolve(@, BufferConcat(f.chunks))]

(***************************************************************************)
(* The records of a batch.                                                 *)
(***************************************************************************)
\* a uid of type number | null is falsy when it is null or 0
Falsy(uid) == uid = None \/ uid[1] = 0

\* the record pushed when the identifier resolves to no uid
NotFoundRecord(id) ==
    [id |-> id, idType |-> idType, mailbox |-> Mailbox, found |-> FALSE, uid |-> None,
     attachmentCount |-> IF op = "peek" THEN Some(0) ELSE None,
     attachments |-> <<>>, error |-> None, meta |-> None]

\* the record pushed by the catch block
CaughtRecord(id, message) ==
    [id |-> id, idType |-> idType, mailbox |-> Mailbox, found |-> FALSE, uid |-> None,
     attachmentCount |-> IF op = "peek" THEN Some(0) ELSE None,
     attachments |-> <<>>, error |-> Some(message), meta |-> None]

\* mutant: the record carries the identifier given where the uid belongs
DownloadRecordWithInputId(id, uid, processed) ==
    [id |-> id, idType |-> idType, mailbox |-> Mailbox, found |-> TRUE,
     uid |-> Some(id), attachmentCount |-> None,
     attachments |-> processed, error |-> None, meta |-> None]

\* the record pushed when downloadAttachments has processed every attachment
DownloadRecord(id, uid, processed) ==
    [id |-> id, idType |-> idType, mailbox |-> Mailbox, found |-> TRUE,
     uid |-> Some(NatToString(uid)), attachmentCount |-> None,
     attachments |-> processed, error |-> None, meta |-> None]

OrElse(o, default) == IF o # None /\ o[1] # <<>> THEN o[1] ELSE default

Nullish(o, default) == IF o # None THEN o[1] ELSE default

\* attachmentMeta of peekMessages
AttachmentMeta(attachments, uid) ==
    [k \in 1..Len(attachments) |->
        [filename |-> OrElse(attachments[k].filename,
                             <<"attachment-">> \o NatToString(uid) \o <<"-">> \o NatToString(k)),
         contentType |-> OrElse(attachments[k].contentType, S_octet),
         size |-> Nullish(attachments[k].size, attachments[k].content.bytes)]]

StringLength(o) == IF o # None THEN Len(o[1]) ELSE 0

\* the record peekMessages pushes for a decoded message (from, to, date and
\* messageId are copied from the decoded message the way subject is)
PeekRecord(id, uid, mail) ==
    [id |-> id, idType |-> idType, mailbox |-> Mailbox, found |-> TRUE,
     uid |-> Some(NatToString(uid)),
     attachmentCount |-> Some(Len(AttachmentMeta(mail.attachments, uid))),
     attachments |-> AttachmentMeta(mail.attachments, uid), error |-> None,
     meta |-> Some([subject |-> mail.subject,
                    hasHtml |-> Truthy(mail.html), hasText |-> Truthy(mail.text),
                    htmlSize |-> StringLength(mail.html),
                    textSize |-> StringLength(mail.text)])]

(***************************************************************************)
(* Placement and materialization.                                          *)
(***************************************************************************)
UpperCase == <<"A", "B", "C", "D", "E", "F", "G", "H", "I", "J", "K", "L", "M", "N", "O", "P", "Q", "R", "S", "T", "U", "V", "W", "X", "Y", "Z">>
LowerCase == <<"a", "b", "c", "d", "e", "f", "g", "h", "i", "j", "k", "l", "m", "n", "o", "p", "q", "r", "s", "t", "u", "v", "w", "x", "y", "z">>

LowerOf == [c \in { UpperCase[k] : k \in 1..26 } |->
               LowerCase[CHOOSE k \in 1..26 : UpperCase[k] = c]]

ToLowerChar(c) == IF c \in DOMAIN LowerOf THEN LowerOf[c] ELSE c

\* String.prototype.toLowerCase
ToLowerCase(s) == [k \in 1..Len(s) |-> ToLowerChar(s[k])]

InlineLimit == 1000

InlineTypes == { <<"a", "p", "p", "l", "i", "c", "a", "t", "i", "o", "n", "/", "j", "s", "o", "n">>,
                 <<"a", "p", "p", "l", "i", "c", "a", "t", "i", "o", "n", "/", "x", "m", "l">>,
                 <<"t", "e", "x", "t", "/", "x", "m", "l">>,
                 <<"a", "p", "p", "l", "i", "c", "a", "t", "i", "o", "n", "/", "y", "a", "m", "l">>,
                 <<"a", "p", "p", "l", "i", "c", "a", "t", "i", "o", "n", "/", "x", "-", "y", "a", "m", "l">> }

\* mutant: the limit is inclusive
shouldInlineUpToLimit(contentType, content) ==
    StartsWith(ToLowerCase(contentType), <<"t", "e", "x", "t", "/">>) /\ content.chars <= InlineLimit

shouldInlineTextAttachment(contentType, content) ==
    LET normalized == ToLowerCase(contentType)
        isText == StartsWith(normalized, <<"t", "e", "x", "t", "/">>)
        isMarkdown == \/ StartsWith(normalized, <<"t", "e", "x", "t", "/", "m", "a", "r", "k", "d", "o", "w", "n">>)
                      \/ StartsWith(normalized, <<"t", "e", "x", "t", "/", "x", "-", "m", "a", "r", "k", "d", "o", "w", "n">>)
                      \/ StartsWith(normalized, <<"t", "e", "x", "t", "/", "m", "d">>)
        isOtherInline == normalized \in InlineTypes
    IN  IF ~isText /\ ~isMarkdown /\ ~isOtherInline THEN FALSE
        ELSE content.chars < InlineLimit

\* mutant: the separators are kept
SanitizeNameKeepsSeparators(filename) == filename

\* filename.replace(/[\\\/]/g, '_')
SanitizeName(filename) ==
    [k \in 1..Len(filename) |-> IF filename[k] \in {"/", "\\"} THEN "_" ELSE filename[k]]

TmpDir == <<"/", "t", "m", "p">>

\* the segments of a path, split at "/"
RECURSIVE SplitPath(_)
SplitPath(path) ==
    IF path = <<>> THEN << <<>> >>
    ELSE LET rest == SplitPath(Tail(path))
         IN  IF Head(path) = "/" THEN << <<>> >> \o rest
             ELSE << <<Head(path)>> \o rest[1] >> \o Tail(rest)

\* path.normalize on the segments of an absolute path: "" and "." are
\* dropped, ".." removes the segment before it
RECURSIVE NormalizeSegments(_, _)
NormalizeSegments(segments, kept) ==
    IF segments = <<>> THEN kept
    ELSE LET segment == Head(segments)
         IN  NormalizeSegments(Tail(segments),
                 IF segment \in { <<>>, <<".">> } THEN kept
                 ELSE IF segment = <<".", ".">>
                      THEN IF kept = <<>> THEN kept ELSE SubSeq(kept, 1, Len(kept) - 1)
                      ELSE Append(kept, segment))

RECURSIVE JoinSegments(_)
JoinSegments(segments) ==
    IF segments = <<>> THEN <<>>
    ELSE <<"/">> \o Head(segments) \o JoinSegments(Tail(segments))

\* path.join(dir, name) for an absolute dir (POSIX)
PathJoin(dir, name) ==
    LET kept == NormalizeSegments(SplitPath(dir \o <<"/">> \o name), <<>>)
    IN  IF kept = <<>> THEN <<"/">> ELSE JoinSegments(kept)

\* mutant: the path does not hold the token
AttachmentPathWithoutToken(filename, uid, token) == PathJoin(TmpDir, SanitizeName(filename))

\* the path writeAttachmentToTemp writes to, for the token randomBytes gave
AttachmentPath(filename, uid, token) ==
    LET replaced == SanitizeName(filename)
        safeName == IF replaced # <<>> THEN replaced
                    ELSE <<"a", "t", "t", "a", "c", "h", "m", "e", "n", "t", "-">> \o uid \o <<"-">> \o token
    IN  PathJoin(TmpDir, token \o <<"-">> \o safeName)

\* mutant: the file is created empty
WriteFileEmpty(files, path, content) ==
    { f \in files : f.path # path } \cup { [path |-> path, content |-> <<>>] }

\* fs.writeFile(path, content): the file is created or replaced
WriteFile(files, path, content) ==
    { f \in files : f.path # path } \cup { [path |-> path, content |-> content] }

(***************************************************************************)
(* The attachment filter (buildAttachmentPredicate).  A filter is absent   *)
(* (None) or a record of optional fields.  The patterns of the model are   *)
(* literals with an optional leading ^ and an optional trailing $; a "("   *)
(* opens a group, and a pattern with an unclosed group does not compile.   *)
(***************************************************************************)
\* String.prototype.includes
Includes(s, sub) == \E p \in 0..(Len(s) - Len(sub)) : SubSeq(s, p + 1, p + Len(sub)) = sub

\* a string is truthy when it is present and not empty
NonEmpty(o) == o # None /\ o[1] # <<>>

Occurrences(s, c) == Cardinality({ k \in 1..Len(s) : s[k] = c })

RegExpFlagChars == {"d", "g", "i", "m", "s", "u", "v", "y"}

\* new RegExp(pattern, flags) throws a SyntaxError
RegExpThrows(pattern, flags) ==
    \/ Occurrences(pattern, "(") # Occurrences(pattern, ")")
    \/ \E k \in 1..Len(flags) : flags[k] \notin RegExpFlagChars
    \/ \E j, k \in 1..Len(flags) : j # k /\ flags[j] = flags[k]

\* the RegExp object: its lastIndex is state that test() reads and writes
NewRegExp(pattern, flags) == [pattern |-> pattern, flags |-> flags, lastIndex |-> 0]

HasFlag(re, f) == \E k \in 1..Len(re.flags) : re.flags[k] = f

AnchoredStart(re) == re.pattern # <<>> /\ Head(re.pattern) = "^"
AnchoredEnd(re) == re.pattern # <<>> /\ re.pattern[Len(re.pattern)] = "$"

\* the literal between the anchors
PatternBody(re) ==
    SubSeq(re.pattern, IF AnchoredStart(re) THEN 2 ELSE 1,
           IF AnchoredEnd(re) THEN Len(re.pattern) - 1 ELSE Len(re.pattern))

\* the pattern matches s at the (0-based) position p
MatchesAt(re, s, p) ==
    LET body == PatternBody(re)
        part == SubSeq(s, p + 1, p + Len(body))
    IN  /\ p + Len(body) <= Len(s)
        /\ IF HasFlag(re, "i") THEN ToLowerCase(part) = ToLowerCase(body) ELSE part = body
        /\ AnchoredStart(re) => p = 0
        /\ AnchoredEnd(re) => p + Len(body) = Len(s)

\* RegExp.prototype.test: with the g or y flag the search starts at
\* lastIndex, a match moves lastIndex behind it and a failure resets it
RegExpTest(re, s) ==
    LET tracked == HasFlag(re, "g") \/ HasFlag(re, "y")
        start == IF tracked THEN re.lastIndex ELSE 0
        found == { p \in start..Len(s) :
                      MatchesAt(re, s, p) /\ (HasFlag(re, "y") => p = start) }
    IN  IF found = {}
        THEN [result |-> FALSE, lastIndex |-> IF tracked THEN 0 ELSE re.lastIndex]
        ELSE LET p == CHOOSE x \in found : \A y \in found : x <= y
             IN  [result |-> TRUE,
                  lastIndex |-> IF tracked THEN p + Len(PatternBody(re)) ELSE re.lastIndex]

InvalidNameRegex == <<"Invalid nameRegex: ", "SyntaxError">>

\* mutant: a pattern that does not compile is not noticed
PredicateThrowsNever(filter) == FALSE

\* buildAttachmentPredicate throws: the pattern is given and does not compile
PredicateThrows(filter) ==
    /\ filter # None
    /\ NonEmpty(filter[1].nameRegex)
    /\ RegExpThrows(filter[1].nameRegex[1], OrElse(filter[1].nameRegexFlags, <<>>))

\* the closure variables of the predicate buildAttachmentPredicate returns
CompiledFilter(filter) ==
    [nameRegex |-> IF NonEmpty(filter.nameRegex)
                   THEN Some(NewRegExp(filter.nameRegex[1], OrElse(filter.nameRegexFlags, <<>>)))
                   ELSE None,
     normalizedName |-> IF filter.name # None THEN Some(ToLowerCase(filter.name[1])) ELSE None,
     normalizedContains |-> IF filter.nameContains # None
                            THEN Some(ToLowerCase(filter.nameContains[1])) ELSE None,
     normalizedMimeTypes |-> IF filter.mimeTypes # None
                             THEN [k \in 1..Len(filter.mimeTypes[1]) |->
                                      ToLowerCase(filter.mimeTypes[1][k])]
                             ELSE <<>>]

\* normalizedMimeTypes.some(...)
MimeMatches(normalizedMimeTypes, contentType) ==
    \E k \in 1..Len(normalizedMimeTypes) :
        LET mime == normalizedMimeTypes[k]
        IN  IF EndsWith(mime, <<"/", "*">>)
            THEN StartsWith(contentType, SubSeq(mime, 1, Len(mime) - 2))
            ELSE contentType = mime

\* the content-type half of the predicate
MimePasses(c, attachment) ==
    Len(c.normalizedMimeTypes) > 0
        => MimeMatches(c.normalizedMimeTypes,
                       IF attachment.contentType # None
                       THEN ToLowerCase(attachment.contentType[1]) ELSE <<>>)

\* one call of the predicate, with the pattern's lastIndex before the call:
\* whether the attachment passes, and the lastIndex after the call
MatchesFilter(c, lastIndex, attachment) ==
    LET filename == OrElse(attachment.filename, <<>>)
        lowerFilename == ToLowerCase(filename)
        named == NonEmpty(c.normalizedName) \/ NonEmpty(c.normalizedContains)
                     \/ c.nameRegex # None
    IN  IF named /\ NonEmpty(c.normalizedName) /\ lowerFilename # c.normalizedName[1]
        THEN [pass |-> FALSE, lastIndex |-> lastIndex]
        ELSE IF named /\ NonEmpty(c.normalizedContains)
                      /\ ~Includes(lowerFilename, c.normalizedContains[1])
        THEN [pass |-> FALSE, lastIndex |-> lastIndex]
        ELSE IF c.nameRegex # None
        THEN LET t == RegExpTest([c.nameRegex[1] EXCEPT !.lastIndex = lastIndex], filename)
             IN  [pass |-> t.result /\ MimePasses(c, attachment), lastIndex |-> t.lastIndex]
        ELSE [pass |-> MimePasses(c, attachment), lastIndex |-> lastIndex]

\* Array.prototype.filter with the predicate: the calls are made in order
\* on the one predicate, from the given lastIndex
RECURSIVE FilterFrom(_, _, _)
FilterFrom(c, lastIndex, seq) ==
    IF seq = <<>> THEN <<>>
    ELSE LET m == MatchesFilter(c, lastIndex, Head(seq))
         IN  (IF m.pass THEN <<Head(seq)>> ELSE <<>>) \o FilterFrom(c, m.lastIndex, Tail(seq))

\* (parsedMail.attachments || []).filter(predicate); without a filter the
\* predicate is () => true.  The filters of the batch inputs carry no g or
\* y flag, so that lastIndex is 0 at the first attachment of every message.
FilterSeq(seq) ==
    IF params.filter = None THEN seq
    ELSE FilterFrom(CompiledFilter(params.filter[1]), 0, seq)

\* a filter with no field set
EmptyFilter == [name |-> None, nameContains |-> None, nameRegex |-> None,
                nameRegexFlags |-> None, mimeTypes |-> None]

S_applicationAny == <<"a", "p", "p", "l", "i", "c", "a", "t", "i", "o", "n", "/", "*">>

\* the filters of the batch inputs: none; a pattern that does not compile;
\* a case-insensitive pattern with a wildcard content type
BatchFilters ==
    { None,
      Some([EmptyFilter EXCEPT !.nameRegex = Some(<<"(">>)]),
      Some([EmptyFilter EXCEPT !.nameRegex = Some(<<"P", "D", "F">>), !.nameRegexFlags = Some(<<"i">>),
                               !.mimeTypes = Some(<<S_applicationAny>>)]) }

\* content.toString('utf8')
Utf8String(content) == [utf8 |-> content.data, length |-> content.chars]

EffectiveName(attachment, uid) ==
    OrElse(attachment.filename, <<"a", "t", "t", "a", "c", "h", "m", "e", "n", "t", "-">> \o NatToString(uid))

InlineResult(attachment, uid) ==
    [filename |-> EffectiveName(attachment, uid),
     contentType |-> OrElse(attachment.contentType, S_octet),
     size |-> Nullish(attachment.size, attachment.content.bytes),
     inlineContent |-> Some(Utf8String(attachment.content)), savedTo |-> None]

\* mutant: the saved result also carries the text
SavedResultWithText(attachment, uid, savedTo) ==
    [filename |-> EffectiveName(attachment, uid),
     contentType |-> OrElse(attachment.contentType, S_octet),
     size |-> Nullish(attachment.size, attachment.content.bytes),
     inlineContent |-> Some(Utf8String(attachment.content)), savedTo |-> Some(savedTo)]

SavedResult(attachment, uid, savedTo) ==
    [filename |-> EffectiveName(attachment, uid),
     contentType |-> OrElse(attachment.contentType, S_octet),
     size |-> Nullish(attachment.size, attachment.content.bytes),
     inlineContent |-> None, savedTo |-> Some(savedTo)]

\* the loop over the matching attachments, from attachment k, up to the
\* first one that has to be written (k <= Len(atts)) or to the end
RECURSIVE ProcessAttachments(_, _, _, _)
ProcessAttachments(atts, uid, k, processed) ==
    IF k > Len(atts) THEN [k |-> k, processed |-> processed]
    ELSE IF shouldInlineTextAttachment(OrElse(atts[k].contentType, S_octet), atts[k].content)
         THEN ProcessAttachments(atts, uid, k + 1, Append(processed, InlineResult(atts[k], uid)))
         ELSE [k |-> k, processed |-> processed]

(***************************************************************************)
(* The loop of a batch operation (the async function run).  Each operator  *)
(* gives the flow at its next wait: the locals, the history and the fetch  *)
(* it has issued, if any.                                                  *)
(***************************************************************************)
IdleRun == [pc |-> "connect", idx |-> 0, cands |-> <<>>, uid |-> 0, raw |-> <<>>,
            atts |-> <<>>, k |-> 0, processed |-> <<>>, results |-> <<>>,
            body |-> None, flags |-> None, total |-> 0, thrown |-> None]

\* the uid of a uid-kind identifier
ParseUid(id) ==
    LET parsed == ParseInt10(id)
    IN  IF parsed.finite /\ parsed.val > 0 THEN Some(parsed.val) ELSE None

\* const rawBuffer = await this.fetchRawByUid(imap, uid)
StartFetch(i, results, uid, lg) ==
    [run |-> [IdleRun EXCEPT !.pc = "fetch", !.idx = i, !.results = results, !.uid = uid],
     log |-> Issue(lg, "fetch", i, [uid |-> uid, options |-> FetchRawOptions]),
     fetch |-> Some(NewFetch(uid, FetchRawOptions))]

\* mutant: the searches for every candidate are issued at once
StartSearchAll(i, results, cands, lg) ==
    [run |-> [IdleRun EXCEPT !.pc = "search", !.idx = i, !.results = results, !.cands = cands],
     log |-> LET first == Issue(lg, "search", i, [header |-> "MESSAGE-ID", value |-> Head(cands)])
             IN  IF Len(cands) > 1
                 THEN Issue(first, "search", i, [header |-> "MESSAGE-ID", value |-> cands[2]])
                 ELSE first,
     fetch |-> None]

\* await this.searchUidsByHeader(imap, 'MESSAGE-ID', candidate)
StartSearch(i, results, cands, lg) ==
    [run |-> [IdleRun EXCEPT !.pc = "search", !.idx = i, !.results = results, !.cands = cands],
     log |-> Issue(lg, "search", i, [header |-> "MESSAGE-ID", value |-> Head(cands)]),
     fetch |-> None]

\* the for loop from identifier i on
RECURSIVE RunFrom(_, _, _)
RunFrom(i, results, lg) ==
    IF i > Len(ids)
    THEN [run |-> [IdleRun EXCEPT !.pc = "done", !.idx = i, !.results = results],
          log |-> lg, fetch |-> None]
    ELSE IF idType = "uid"
         THEN IF Falsy(ParseUid(ids[i]))
              THEN RunFrom(i + 1, Append(results, NotFoundRecord(ids[i])), lg)
              ELSE StartFetch(i, results, ParseUid(ids[i])[1], lg)
         ELSE IF buildMessageIdCandidates(ids[i]) = <<>>
              THEN RunFrom(i + 1, Append(results, NotFoundRecord(ids[i])), lg)
              ELSE StartSearch(i, results, buildMessageIdCandidates(ids[i]), lg)

\* mutant: every candidate is searched, and the answer to the last one
\* decides
AfterSearchEveryCandidate(r, answer, lg) ==
    IF Len(r.cands) > 1
    THEN StartSearch(r.idx, r.results, Tail(r.cands), lg)
    ELSE IF Len(answer) > 0 /\ ~Falsy(Some(answer[1]))
         THEN StartFetch(r.idx, r.results, answer[1], lg)
         ELSE RunFrom(r.idx + 1, Append(r.results, NotFoundRecord(ids[r.idx])), lg)

\* resolveUidForMessageId after a search has answered
AfterSearch(r, answer, lg) ==
    IF Len(answer) > 0
    THEN IF Falsy(Some(answer[1]))
         THEN RunFrom(r.idx + 1, Append(r.results, NotFoundRecord(ids[r.idx])), lg)
         ELSE StartFetch(r.idx, r.results, answer[1], lg)
    ELSE IF Len(r.cands) > 1
         THEN StartSearch(r.idx, r.results, Tail(r.cands), lg)
         ELSE RunFrom(r.idx + 1, Append(r.results, NotFoundRecord(ids[r.idx])), lg)

\* mutants of the catch block: it pushes no record; it rethrows; it
\* leaves the loop
OnCaughtSkip(r, message, lg) == RunFrom(r.idx + 1, r.results, lg)

OnCaughtRethrow(r, message, lg) ==
    [run |-> [r EXCEPT !.pc = "threw", !.thrown = Some(message)], log |-> lg, fetch |-> None]

OnCaughtBreak(r, message, lg) ==
    [run |-> [IdleRun EXCEPT !.pc = "done", !.idx = r.idx + 1,
                             !.results = Append(r.results, CaughtRecord(ids[r.idx], message))],
     log |-> lg, fetch |-> None]

\* the catch block of the loop body, then the next identifier
OnCaught(r, message, lg) ==
    RunFrom(r.idx + 1, Append(r.results, CaughtRecord(ids[r.idx], message)), lg)

\* the attachments loop of downloadAttachments from attachment k on
DownloadFrom(r, k, processed, lg) ==
    LET next == ProcessAttachments(r.atts, r.uid, k, processed)
    IN  IF next.k > Len(r.atts)
        THEN RunFrom(r.idx + 1,
                     Append(r.results, DownloadRecord(ids[r.idx], r.uid, next.processed)), lg)
        ELSE [run |-> [r EXCEPT !.pc = "write", !.k = next.k, !.processed = next.processed],
              log |-> Issue(lg, "write", r.idx, [k |-> next.k, of |-> Len(r.atts)]),
              fetch |-> None]

\* mutant: peekMessages goes on to the next identifier without having
\* pushed the record of this one
AfterParseBeforeRecord(r, mail, lg) ==
    IF op = "download"
    THEN DownloadFrom([r EXCEPT !.atts = FilterSeq(mail.attachments)], 1, <<>>, lg)
    ELSE RunFrom(r.idx + 1, r.results, lg)

\* mutant: peekMessages processes the attachments as downloadAttachments does
AfterParseAlwaysDownloads(r, mail, lg) ==
    DownloadFrom([r EXCEPT !.atts = FilterSeq(mail.attachments)], 1, <<>>, lg)

\* the loop body after simpleParser has decoded the message
AfterParse(r, mail, lg) ==
    IF op = "download"
    THEN DownloadFrom([r EXCEPT !.atts = FilterSeq(mail.attachments)], 1, <<>>, lg)
    ELSE RunFrom(r.idx + 1, Append(r.results, PeekRecord(ids[r.idx], r.uid, mail)), lg)

\* const parsedMail = await simpleParser(rawBuffer)
StartParse(r, raw, lg) ==
    [run |-> [r EXCEPT !.pc = "parse", !.raw = raw],
     log |-> Issue(lg, "parse", r.idx, [raw |-> raw]),
     fetch |-> None]

\* mutant: run().then(...) ends the session and does not resolve
ContinueWithoutResolve(f, fetchNow, connNow) ==
    /\ run' = f.run
    /\ log' = f.log
    /\ fx' = IF f.fetch # None THEN f.fetch[1] ELSE fetchNow
    /\ IF f.run.pc = "done"
       THEN /\ conn' = [connNow EXCEPT !.ended = TRUE]
            /\ UNCHANGED promise
       ELSE IF f.run.pc = "threw"
            THEN /\ conn' = [connNow EXCEPT !.ended = TRUE]
                 /\ promise' = Reject(promise, f.run.thrown[1])
            ELSE /\ conn' = connNow
                 /\ UNCHANGED promise

\* run().then(...) and run().catch(...): the flow f becomes the state
Continue(f, fetchNow, connNow) ==
    /\ run' = f.run
    /\ log' = f.log
    /\ fx' = IF f.fetch # None THEN f.fetch[1] ELSE fetchNow
    /\ IF f.run.pc = "done"
       THEN /\ conn' = [connNow EXCEPT !.ended = TRUE]
            /\ promise' = Resolve(promise, f.run.results)
       ELSE IF f.run.pc = "threw"
            THEN /\ conn' = [connNow EXCEPT !.ended = TRUE]
                 /\ promise' = Reject(promise, f.run.thrown[1])
            ELSE /\ conn' = connNow
                 /\ UNCHANGED promise

(***************************************************************************)
(* htmlToText: the chain of regular-expression replacements.               *)
(***************************************************************************)
\* s has the literal lit at position i, letters compared without case
HasAt(s, i, lit) ==
    /\ i + Len(lit) - 1 <= Len(s)
    /\ ToLowerCase(SubSeq(s, i, i + Len(lit) - 1)) = lit

RECURSIVE SkipWhitespace(_, _)
SkipWhitespace(s, i) ==
    IF i <= Len(s) /\ IsWhitespace(s[i]) THEN SkipWhitespace(s, i + 1) ELSE i

\* the first position from i on where s has lit, or 0
RECURSIVE FindFrom(_, _, _)
FindFrom(s, i, lit) ==
    IF i > Len(s) THEN 0
    ELSE IF HasAt(s, i, lit) THEN i ELSE FindFrom(s, i + 1, lit)

\* <open[\s\S]*?close
BlockEnd(s, i, open, close) ==
    IF ~HasAt(s, i, open) THEN 0
    ELSE LET j == FindFrom(s, i + Len(open), close)
         IN  IF j = 0 THEN 0 ELSE j + Len(close)

\* <br\s*\/?>
BrEnd(s, i) ==
    IF ~HasAt(s, i, <<"<", "b", "r">>) THEN 0
    ELSE LET j == SkipWhitespace(s, i + 3)
             k == IF j <= Len(s) /\ s[j] = "/" THEN j + 1 ELSE j
         IN  IF k <= Len(s) /\ s[k] = ">" THEN k + 1 ELSE 0

\* <[^>]+>
TagEnd(s, i) ==
    IF s[i] # "<" THEN 0
    ELSE LET j == FindFrom(s, i + 1, <<">">>)
         IN  IF j = 0 \/ j = i + 1 THEN 0 ELSE j + 1

\* the position after the match of the pattern at position i, or 0
MatchEnd(pattern, s, i) ==
    CASE pattern = "script" -> BlockEnd(s, i, <<"<", "s", "c", "r", "i", "p", "t">>, <<"<", "/", "s", "c", "r", "i", "p", "t", ">">>)
      [] pattern = "style"  -> BlockEnd(s, i, <<"<", "s", "t", "y", "l", "e">>, <<"<", "/", "s", "t", "y", "l", "e", ">">>)
      [] pattern = "br"     -> BrEnd(s, i)
      [] pattern = "tag"    -> TagEnd(s, i)
      [] OTHER              -> IF HasAt(s, i, pattern) THEN i + Len(pattern) ELSE 0

\* String.prototype.replace with a global pattern
RECURSIVE ReplaceFrom(_, _, _, _)
ReplaceFrom(s, i, pattern, by) ==
    IF i > Len(s) THEN <<>>
    ELSE IF MatchEnd(pattern, s, i) > 0
         THEN by \o ReplaceFrom(s, MatchEnd(pattern, s, i), pattern, by)
         ELSE <<s[i]>> \o ReplaceFrom(s, i + 1, pattern, by)

ReplaceAll(s, pattern, by) == ReplaceFrom(s, 1, pattern, by)

htmlToText(html) ==
    LET a == ReplaceAll(html, "script", <<>>)
        b == ReplaceAll(a, "style", <<>>)
        c == ReplaceAll(b, <<"<", "/", "p", ">">>, <<"\n", "\n">>)
        d == ReplaceAll(c, "br", <<"\n">>)
        e == ReplaceAll(d, "tag", <<>>)
        f == ReplaceAll(e, <<"&", "n", "b", "s", "p", ";">>, <<" ">>)
        g == ReplaceAll(f, <<"&", "a", "m", "p", ";">>, <<"&">>)
        h == ReplaceAll(g, <<"&", "l", "t", ";">>, <<"<">>)
        i == ReplaceAll(h, <<"&", "g", "t", ";">>, <<">">>)
        j == ReplaceAll(i, <<"&", "q", "u", "o", "t", ";">>, <<"\"">>)
        k == ReplaceAll(j, <<"&", "#", "3", "9", ";">>, <<"'">>)
    IN  Trim(k)

(***************************************************************************)
(* getMessageContent.                                                      *)
(***************************************************************************)
Formats == {"html", "text", "raw"}

InvalidMessageId(id) == <<"Invalid message id: ", id>>

NotFoundForId(id) == <<"Message not found for id: ", id>>

\* the id of getMessageContent is any non-empty string: a uid or the
\* Message-ID of a stored message
ContentMessageIds == { <<"<", "a", ">">> }
ContentIdPool == UidIdPool \cup ContentMessageIds

\* the check before the connection is created
ValidContentId(id) == ParseInt10(id).finite /\ ParseInt10(id).val > 0

\* mutant: the plain text is preferred for both formats
SelectBodyTextFirst(format, parsed) ==
    IF Truthy(parsed.text) THEN parsed.text[1]
    ELSE IF parsed.html # None
         THEN IF format = "html" THEN parsed.html[1] ELSE htmlToText(parsed.html[1])
    ELSE IF Truthy(parsed.textAsHtml)
         THEN IF format = "html" THEN parsed.textAsHtml[1] ELSE htmlToText(parsed.textAsHtml[1])
    ELSE <<>>

\* the body of finalize for the formats html and text
SelectBody(format, parsed) ==
    IF format = "html"
    THEN IF parsed.html # None THEN parsed.html[1]
         ELSE IF Truthy(parsed.textAsHtml) THEN parsed.textAsHtml[1]
         ELSE IF Truthy(parsed.text) THEN parsed.text[1]
         ELSE <<>>
    ELSE IF Truthy(parsed.text) THEN parsed.text[1]
         ELSE IF parsed.html # None THEN htmlToText(parsed.html[1])
         ELSE IF Truthy(parsed.textAsHtml) THEN htmlToText(parsed.textAsHtml[1])
         ELSE <<>>

\* rawBuffer.toString('utf8')
RawToString(raw) == [utf8 |-> raw]

\* finalize up to the body, the decoder not failing: what it throws, the
\* body, and whether simpleParser was called (its answer is parsed)
FinalizeBody(id, foundMessage, format, raw, parsed) ==
    IF ~foundMessage
    THEN [threw |-> Some(NotFoundForId(id)), body |-> None, decoded |-> FALSE]
    ELSE IF format = "raw"
         THEN [threw |-> None, body |-> Some(RawToString(raw)), decoded |-> FALSE]
         ELSE [threw |-> None, body |-> Some(SelectBody(format, parsed)), decoded |-> TRUE]

\* the path and size writeRawToTemp gives for the token randomBytes gave
RawPath(uid, token) ==
    TmpDir \o <<"/">> \o <<"m", "e", "s", "s", "a", "g", "e", "-">> \o NatToString(uid) \o <<"-">> \o token \o <<".", "e", "m", "l">>

ContentResult(body, flags, saved) ==
    [id |-> ids[1], format |-> params.format, body |-> body, mailbox |-> Mailbox,
     rawFilePath |-> IF saved = None THEN None ELSE Some(saved[1].path),
     rawSize |-> IF saved = None THEN None ELSE Some(saved[1].size),
     hasHtml |-> IF flags = None THEN None ELSE Some(flags[1].hasHtml),
     hasText |-> IF flags = None THEN None ELSE Some(flags[1].hasText)]

(***************************************************************************)
(* The state after the operation has been called: the connection is        *)
(* created, its listeners are registered and connect() has been called.    *)
(***************************************************************************)
NoParams == [format |-> "none", saveRawToFile |-> FALSE, count |-> 0, query |-> "none",
             filter |-> None]

\* no pure helper is applied on its own while an operation runs
NoCall == [fn |-> "none"]

NewConn == [state |-> "connecting", readOnly |-> None, ended |-> FALSE, errorListeners |-> 1]

\* downloadAttachments builds the predicate before it creates the
\* connection: when that throws, the async function's promise is rejected
\* and nothing else has happened
InitBatch ==
    /\ op \in {"download", "peek"}
    /\ idType \in {"uid", "message-id"}
    /\ \E messageIds \in BatchInputs(IF idType = "uid" THEN UidIdPool ELSE MessageIdPool) :
          ids = normalizeMessageIds(messageIds)
    /\ \E filter \in (IF op = "download" THEN BatchFilters ELSE {None}) :
          params = [NoParams EXCEPT !.filter = filter]
    /\ IF op = "download" /\ PredicateThrows(params.filter)
       THEN /\ conn = [NewConn EXCEPT !.state = "none"]
            /\ promise = Reject(Pending, InvalidNameRegex)
       ELSE /\ conn = NewConn
            /\ promise = Pending

\* getMessageContent throws for an invalid id before it creates a connection
InitContent ==
    /\ op = "content"
    /\ idType = "uid"
    /\ \E id \in ContentIdPool : ids = <<id>>
    /\ \E format \in Formats, saveRawToFile \in BOOLEAN :
          params = [NoParams EXCEPT !.format = format, !.saveRawToFile = saveRawToFile]
    /\ IF ValidContentId(ids[1])
       THEN conn = NewConn /\ promise = Pending
       ELSE /\ conn = [NewConn EXCEPT !.state = "none"]
            /\ promise = Reject(Pending, InvalidMessageId(ids[1]))

ListCounts == {1, 10}

InitList ==
    /\ op = "list"
    /\ idType = "uid"
    /\ ids = <<>>
    /\ \E count \in ListCounts : params = [NoParams EXCEPT !.count = count]
    /\ conn = NewConn
    /\ promise = Pending

InitSearch ==
    /\ op = "search"
    /\ idType = "uid"
    /\ ids = <<>>
    /\ params = [NoParams EXCEPT !.query = "q"]
    /\ conn = NewConn
    /\ promise = Pending

Init ==
    /\ InitBatch \/ InitContent \/ InitList \/ InitSearch
    /\ run = IdleRun
    /\ fx = NoFetch
    /\ log = <<>>
    /\ seen = InitSeen
    /\ tmp = {}
    /\ nerr = 0
    /\ call = NoCall
    /\ ret = None

Batch == op \in {"download", "peek"}

(***************************************************************************)
(* Events of the connection.                                               *)
(***************************************************************************)
\* the second argument of every openBox call
OpenReadOnly == TRUE

\* 'ready': the handler opens the mailbox read-only
ConnReady ==
    /\ conn.state = "connecting"
    /\ conn' = [conn EXCEPT !.state = "ready"]
    /\ run' = [run EXCEPT !.pc = "openBox"]
    /\ log' = Issue(log, "openBox", 0, [mailbox |-> Mailbox, readOnly |-> OpenReadOnly])
    /\ UNCHANGED <<op, ids, idType, params, promise, fx, seen, tmp, nerr, call, ret>>

\* 'error': the listener registered with once rejects; an 'error' event
\* without a listener is thrown and ends the process
ConnError ==
    /\ conn.state \in {"connecting", "ready"}
    /\ ~conn.ended
    /\ nerr < MaxConnErrors
    /\ nerr' = nerr + 1
    /\ IF conn.errorListeners > 0
       THEN /\ conn' = [conn EXCEPT !.errorListeners = 0,
                                    !.state = IF @ = "connecting" THEN "failed" ELSE @]
            /\ promise' = Reject(promise, <<"ECONN">>)
       ELSE /\ conn' = [conn EXCEPT !.state = "crashed"]
            /\ UNCHANGED promise
    /\ UNCHANGED <<op, ids, idType, params, run, fx, log, seen, tmp, call, ret>>

\* the callback of openBox without an error
OpenBoxOk ==
    /\ conn.state = "ready"
    /\ run.pc = "openBox"
    /\ Batch
    /\ Continue(RunFrom(1, <<>>, Settle(log, "openBox", "ok")), fx,
                [conn EXCEPT !.readOnly = Some(log[Len(log)].arg.readOnly)])
    /\ UNCHANGED <<op, ids, idType, params, seen, tmp, nerr, call, ret>>

\* mutant: the return after reject(err) is missing and the loop runs
OpenBoxErrNoReturn ==
    /\ conn.state = "ready"
    /\ run.pc = "openBox"
    /\ promise' = Reject(promise, <<"EOPEN">>)
    /\ IF Batch
       THEN LET f == RunFrom(1, <<>>, Settle(log, "openBox", "error"))
            IN  /\ run' = f.run
                /\ log' = f.log
                /\ fx' = IF f.fetch # None THEN f.fetch[1] ELSE fx
                /\ conn' = IF f.run.pc = "done" THEN [conn EXCEPT !.ended = TRUE] ELSE conn
       ELSE /\ run' = [run EXCEPT !.pc = "failed"]
            /\ log' = Settle(log, "openBox", "error")
            /\ UNCHANGED <<conn, fx>>
    /\ UNCHANGED <<op, ids, idType, params, seen, tmp, nerr, call, ret>>

\* the callback of openBox with an error: reject(err); return
OpenBoxErr ==
    /\ conn.state = "ready"
    /\ run.pc = "openBox"
    /\ run' = [run EXCEPT !.pc = "failed"]
    /\ log' = Settle(log, "openBox", "error")
    /\ promise' = Reject(promise, <<"EOPEN">>)
    /\ UNCHANGED <<op, ids, idType, params, conn, fx, seen, tmp, nerr, call, ret>>

(***************************************************************************)
(* Events of the exchanges of a batch.                                     *)
(***************************************************************************)
\* the callback of imap.search: resolve(results || [])
SearchOk ==
    /\ conn.state = "ready"
    /\ run.pc = "search"
    /\ Batch
    /\ \E results \in SearchAnswers :
          LET answer == Nullish(results, <<>>)
          IN  Continue(AfterSearch(run, answer, SettleWith(log, "search", "ok", answer)), fx, conn)
    /\ UNCHANGED <<op, ids, idType, params, seen, tmp, nerr, call, ret>>

\* mutant: an error of the search is taken as an empty answer
SearchErrAsEmpty ==
    /\ conn.state = "ready"
    /\ run.pc = "search"
    /\ Batch
    /\ Continue(AfterSearch(run, <<>>, Settle(log, "search", "error")), fx, conn)
    /\ UNCHANGED <<op, ids, idType, params, seen, tmp, nerr, call, ret>>

\* the callback of imap.search with an error: the await throws
SearchErr ==
    /\ conn.state = "ready"
    /\ run.pc = "search"
    /\ Batch
    /\ Continue(OnCaught(run, <<"ESEARCH">>, Settle(log, "search", "error")), fx, conn)
    /\ UNCHANGED <<op, ids, idType, params, seen, tmp, nerr, call, ret>>

\* 'message' of the fetch: the store delivers the message of an existing
\* uid; a fetch that marks seen in a mailbox opened read-write sets \Seen
FetchMessage ==
    /\ conn.state = "ready"
    /\ fx.state = "open"
    /\ ~fx.found
    /\ op \in {"download", "peek", "content"}
    /\ fx.uids[1] \in StoreUids
    /\ fx' = OnFetchMessage(fx)
    /\ seen' = IF MarkSeenOf(fx.options) /\ conn.readOnly # Some(TRUE)
               THEN seen \cup {fx.uids[1]} ELSE seen
    /\ UNCHANGED <<op, ids, idType, params, conn, promise, run, log, tmp, nerr, call, ret>>

\* 'data' of the body stream: the next chunk is pushed
FetchData ==
    /\ conn.state = "ready"
    /\ fx.state = "open"
    /\ op \in {"download", "peek", "content"}
    /\ fx.found
    /\ fx.sent < Len(RawChunks(fx.uids[1]))
    /\ fx' = [OnFetchData(fx, RawChunks(fx.uids[1])[fx.sent + 1]) EXCEPT !.sent = @ + 1]
    /\ UNCHANGED <<op, ids, idType, params, conn, promise, run, log, seen, tmp, nerr, call, ret>>

\* 'error' of the fetch: reject(err), caught by the loop body (the chunks
\* pushed so far are never read again)
FetchError ==
    /\ conn.state = "ready"
    /\ fx.state = "open"
    /\ Batch
    /\ LET f == OnFetchError(fx, <<"EFETCH">>)
       IN  Continue(OnCaught(run, f.promise.error[1], Settle(log, "fetch", "error")),
                    [NoFetch EXCEPT !.state = "errored", !.uids = fx.uids,
                                    !.promise = f.promise], conn)
    /\ UNCHANGED <<op, ids, idType, params, seen, tmp, nerr, call, ret>>

\* 'end' of the fetch: not found, or the chunks concatenated; after an
\* 'error' the promise is settled already and nothing happens
FetchEnd ==
    /\ conn.state = "ready"
    /\ fx.state \in {"open", "errored"}
    /\ fx.state = "open" /\ fx.uids[1] \in StoreUids
          => fx.found /\ fx.sent = Len(RawChunks(fx.uids[1]))
    /\ Batch
    /\ IF fx.state = "errored"
       THEN /\ fx' = [OnFetchEnd(fx) EXCEPT !.state = "ended"]
            /\ UNCHANGED <<conn, promise, run, log>>
       ELSE LET f == [OnFetchEnd(fx) EXCEPT !.state = "ended"]
            IN  IF f.promise.state = "rejected"
                THEN Continue(OnCaught(run, f.promise.error[1],
                                       Settle(log, "fetch", "notfound")), f, conn)
                ELSE Continue(StartParse(run, f.promise.value[1],
                                         Settle(log, "fetch", "ok")), f, conn)
    /\ UNCHANGED <<op, ids, idType, params, seen, tmp, nerr, call, ret>>

\* the decoder has decoded the raw message
ParseOk ==
    /\ conn.state = "ready"
    /\ run.pc = "parse"
    /\ Batch
    /\ Continue(AfterParse(run, simpleParser(run.raw), Settle(log, "parse", "ok")), fx, conn)
    /\ UNCHANGED <<op, ids, idType, params, seen, tmp, nerr, call, ret>>

\* the decoder fails: the await throws
ParseErr ==
    /\ conn.state = "ready"
    /\ run.pc = "parse"
    /\ Batch
    /\ Continue(OnCaught(run, <<"EPARSE">>, Settle(log, "parse", "error")), fx, conn)
    /\ UNCHANGED <<op, ids, idType, params, seen, tmp, nerr, call, ret>>

\* writeAttachmentToTemp has written the file
WriteOk ==
    /\ conn.state = "ready"
    /\ run.pc = "write"
    /\ Batch
    /\ \E token \in Tokens :
          LET attachment == run.atts[run.k]
              filePath == AttachmentPath(EffectiveName(attachment, run.uid),
                                         NatToString(run.uid), token)
          IN  /\ tmp' = WriteFile(tmp, filePath, attachment.content)
              /\ Continue(DownloadFrom(run, run.k + 1,
                                       Append(run.processed,
                                              SavedResult(attachment, run.uid, filePath)),
                                       SettleWith(log, "write", "ok",
                                                  <<[path |-> filePath, token |-> token]>>)),
                          fx, conn)
    /\ UNCHANGED <<op, ids, idType, params, seen, nerr, call, ret>>

\* fs.writeFile fails: the await throws
WriteErr ==
    /\ conn.state = "ready"
    /\ run.pc = "write"
    /\ Batch
    /\ Continue(OnCaught(run, <<"EWRITE">>, Settle(log, "write", "error")), fx, conn)
    /\ UNCHANGED <<op, ids, idType, params, seen, tmp, nerr, call, ret>>

(***************************************************************************)
(* Events of getMessageContent.                                            *)
(***************************************************************************)
\* the callback of openBox without an error: the fetch is issued
ContentOpenBoxOk ==
    /\ conn.state = "ready"
    /\ run.pc = "openBox"
    /\ op = "content"
    /\ conn' = [conn EXCEPT !.readOnly = Some(log[Len(log)].arg.readOnly)]
    /\ run' = [run EXCEPT !.pc = "fetch", !.idx = 1, !.uid = ParseInt10(ids[1]).val]
    /\ log' = Issue(Settle(log, "openBox", "ok"), "fetch", 1,
                    [uid |-> ParseInt10(ids[1]).val, options |-> FetchRawOptions])
    /\ fx' = NewFetch(ParseInt10(ids[1]).val, FetchRawOptions)
    /\ UNCHANGED <<op, ids, idType, params, promise, seen, tmp, nerr, call, ret>>

\* 'error' of the fetch: reject(fetchErr)
ContentFetchError ==
    /\ conn.state = "ready"
    /\ fx.state = "open"
    /\ op = "content"
    /\ fx' = [fx EXCEPT !.state = "errored"]
    /\ log' = Settle(log, "fetch", "error")
    /\ promise' = Reject(promise, <<"EFETCH">>)
    /\ UNCHANGED <<op, ids, idType, params, conn, run, seen, tmp, nerr, call, ret>>

\* mutant: the raw message is saved only when the format is raw
ContentFinishRawOnly(r, body, flags, lg) ==
    IF params.saveRawToFile /\ params.format = "raw"
    THEN /\ run' = [r EXCEPT !.pc = "write", !.body = Some(body), !.flags = flags]
         /\ log' = Issue(lg, "write", 1, [k |-> 0])
         /\ UNCHANGED promise
    ELSE /\ run' = [r EXCEPT !.pc = "done", !.body = Some(body), !.flags = flags]
         /\ log' = lg
         /\ promise' = Resolve(promise, ContentResult(body, flags, None))

\* finalize once the body is known: the raw message is saved or the
\* result is returned
ContentFinish(r, body, flags, lg) ==
    IF params.saveRawToFile
    THEN /\ run' = [r EXCEPT !.pc = "write", !.body = Some(body), !.flags = flags]
         /\ log' = Issue(lg, "write", 1, [k |-> 0])
         /\ UNCHANGED promise
    ELSE /\ run' = [r EXCEPT !.pc = "done", !.body = Some(body), !.flags = flags]
         /\ log' = lg
         /\ promise' = Resolve(promise, ContentResult(body, flags, None))

\* 'end' of the fetch: imap.end(), then finalize() up to its first await
ContentFetchEnd ==
    /\ conn.state = "ready"
    /\ fx.state \in {"open", "errored"}
    /\ fx.state = "open" /\ fx.uids[1] \in StoreUids
          => fx.found /\ fx.sent = Len(RawChunks(fx.uids[1]))
    /\ op = "content"
    /\ fx' = [fx EXCEPT !.state = "ended"]
    /\ conn' = [conn EXCEPT !.ended = TRUE]
    /\ LET lg == Settle(log, "fetch", IF fx.found THEN "ok" ELSE "notfound")
           raw == BufferConcat(fx.chunks)
       IN  IF ~fx.found
           THEN /\ run' = [run EXCEPT !.pc = "failed"]
                /\ log' = lg
                /\ promise' = Reject(promise, NotFoundForId(ids[1]))
           ELSE IF params.format = "raw"
                THEN ContentFinish([run EXCEPT !.raw = raw], RawToString(raw), None, lg)
                ELSE /\ run' = [run EXCEPT !.pc = "parse", !.raw = raw]
                     /\ log' = Issue(lg, "parse", 1, [raw |-> raw])
                     /\ UNCHANGED promise
    /\ UNCHANGED <<op, ids, idType, params, seen, tmp, nerr, call, ret>>

\* the decoder has decoded the raw message: the body is selected
ContentParseOk ==
    /\ conn.state = "ready"
    /\ run.pc = "parse"
    /\ op = "content"
    /\ LET parsed == simpleParser(run.raw)
       IN  ContentFinish(run, SelectBody(params.format, parsed),
                         Some([hasHtml |-> Truthy(parsed.html), hasText |-> Truthy(parsed.text)]),
                         Settle(log, "parse", "ok"))
    /\ UNCHANGED <<op, ids, idType, params, conn, fx, seen, tmp, nerr, call, ret>>

\* the decoder fails: finalize() rejects
ContentParseErr ==
    /\ conn.state = "ready"
    /\ run.pc = "parse"
    /\ op = "content"
    /\ run' = [run EXCEPT !.pc = "failed"]
    /\ log' = Settle(log, "parse", "error")
    /\ promise' = Reject(promise, <<"EPARSE">>)
    /\ UNCHANGED <<op, ids, idType, params, conn, fx, seen, tmp, nerr, call, ret>>

\* writeRawToTemp has written the file: the result is returned
ContentWriteOk ==
    /\ conn.state = "ready"
    /\ run.pc = "write"
    /\ op = "content"
    /\ \E token \in Tokens :
          /\ tmp' = WriteFile(tmp, RawPath(run.uid, token), run.raw)
          /\ promise' = Resolve(promise,
                ContentResult(run.body[1], run.flags,
                              Some([path |-> RawPath(run.uid, token), size |-> Len(run.raw)])))
          /\ log' = SettleWith(log, "write", "ok",
                               <<[path |-> RawPath(run.uid, token), token |-> token]>>)
    /\ run' = [run EXCEPT !.pc = "done"]
    /\ UNCHANGED <<op, ids, idType, params, conn, fx, seen, nerr, call, ret>>

\* fs.writeFile fails: finalize() rejects
ContentWriteErr ==
    /\ conn.state = "ready"
    /\ run.pc = "write"
    /\ op = "content"
    /\ run' = [run EXCEPT !.pc = "failed"]
    /\ log' = Settle(log, "write", "error")
    /\ promise' = Reject(promise, <<"EWRITE">>)
    /\ UNCHANGED <<op, ids, idType, params, conn, fx, seen, tmp, nerr, call, ret>>

(***************************************************************************)
(* Events of listMessages and searchMessages.                              *)
(***************************************************************************)
Max(a, b) == IF a >= b THEN a ELSE b

SearchLimit == 50

\* Array.prototype.slice(0, n)
SliceTo(seq, n) == SubSeq(seq, 1, IF Len(seq) < n THEN Len(seq) ELSE n)

\* the answers the text search can give
QueryAnswers == { <<>>, <<UidOfSeq(1)>>, <<UidOfSeq(2), UidOfSeq(1)>> }

\* mutant: the id is the sequence number of the message
EmailMessageWithSeqno(uid) ==
    [id |-> NatToString(uid - 1), threadId |-> NatToString(uid - 1),
     subject |-> Nullish(HeaderOf(uid).subject, "(No Subject)"),
     from |-> Nullish(HeaderOf(uid).from, ""),
     to |-> <<Nullish(HeaderOf(uid).to, "")>>,
     date |-> DateOf(uid),
     snippet |-> <<Nullish(HeaderOf(uid).subject, "(No Subject)"),
                   Nullish(HeaderOf(uid).from, "Unknown sender")>>,
     labels |-> <<"INBOX">>]

\* the EmailMessage built when a message of the fetch has ended
EmailMessage(uid) ==
    [id |-> NatToString(uid), threadId |-> NatToString(uid),
     subject |-> Nullish(HeaderOf(uid).subject, "(No Subject)"),
     from |-> Nullish(HeaderOf(uid).from, ""),
     to |-> <<Nullish(HeaderOf(uid).to, "")>>,
     date |-> DateOf(uid),
     snippet |-> <<Nullish(HeaderOf(uid).subject, "(No Subject)"),
                   Nullish(HeaderOf(uid).from, "Unknown sender")>>,
     labels |-> <<"INBOX">>]

\* messages.sort((a, b) => b.date - a.date): newest first, stable
RECURSIVE InsertByDate(_, _)
InsertByDate(sorted, m) ==
    IF sorted = <<>> THEN <<m>>
    ELSE IF Head(sorted).date >= m.date
         THEN <<Head(sorted)>> \o InsertByDate(Tail(sorted), m)
         ELSE <<m>> \o sorted

RECURSIVE SortNewestFirst(_)
SortNewestFirst(messages) ==
    IF messages = <<>> THEN <<>>
    ELSE InsertByDate(SortNewestFirst(SubSeq(messages, 1, Len(messages) - 1)),
                      messages[Len(messages)])

HeaderFetch(uids) ==
    [state |-> "open", uids |-> uids, options |-> FetchHeaderOptions,
     found |-> FALSE, chunks |-> <<>>, sent |-> 0]

\* listMessages: the callback of openBox without an error
ListOpenBoxOk ==
    /\ conn.state = "ready"
    /\ run.pc = "openBox"
    /\ op = "list"
    /\ LET total == MaxMessages
           start == Max(1, total - params.count + 1)
       IN  /\ log' = Issue(Settle(log, "openBox", "ok"), "fetchHeaders", 0,
                           [range |-> <<start, total>>, options |-> FetchHeaderOptions])
           /\ fx' = HeaderFetch([n \in 1..(total - start + 1) |-> UidOfSeq(start + n - 1)])
    /\ conn' = [conn EXCEPT !.readOnly = Some(log[Len(log)].arg.readOnly)]
    /\ run' = [run EXCEPT !.pc = "fetch"]
    /\ UNCHANGED <<op, ids, idType, params, promise, seen, tmp, nerr, call, ret>>

\* searchMessages: the callback of openBox without an error
SearchOpenBoxOk ==
    /\ conn.state = "ready"
    /\ run.pc = "openBox"
    /\ op = "search"
    /\ log' = Issue(Settle(log, "openBox", "ok"), "search", 0,
                    [criteria |-> <<"ALL", <<"TEXT", params.query>>>>])
    /\ conn' = [conn EXCEPT !.readOnly = Some(log[Len(log)].arg.readOnly)]
    /\ run' = [run EXCEPT !.pc = "search"]
    /\ UNCHANGED <<op, ids, idType, params, promise, fx, seen, tmp, nerr, call, ret>>

\* searchMessages: the callback of imap.search without an error
QueryOk ==
    /\ conn.state = "ready"
    /\ run.pc = "search"
    /\ op = "search"
    /\ \E results \in QueryAnswers :
          IF Len(results) = 0
          THEN /\ promise' = Resolve(promise, [messages |-> <<>>, totalCount |-> 0,
                                               query |-> params.query])
               /\ run' = [run EXCEPT !.pc = "done"]
               /\ log' = SettleWith(log, "search", "ok", results)
               /\ UNCHANGED fx
          ELSE /\ log' = Issue(SettleWith(log, "search", "ok", results), "fetchHeaders", 0,
                               [uids |-> SliceTo(results, SearchLimit),
                                options |-> FetchHeaderOptions])
               /\ fx' = HeaderFetch(SliceTo(results, SearchLimit))
               /\ run' = [run EXCEPT !.pc = "fetch", !.total = Len(results)]
               /\ UNCHANGED promise
    /\ UNCHANGED <<op, ids, idType, params, conn, seen, tmp, nerr, call, ret>>

\* searchMessages: the callback of imap.search with an error
QueryErr ==
    /\ conn.state = "ready"
    /\ run.pc = "search"
    /\ op = "search"
    /\ promise' = Reject(promise, <<"ESEARCH">>)
    /\ run' = [run EXCEPT !.pc = "failed"]
    /\ log' = Settle(log, "search", "error")
    /\ UNCHANGED <<op, ids, idType, params, conn, fx, seen, tmp, nerr, call, ret>>

\* a message of the header fetch (its body, attributes and end): the
\* EmailMessage is pushed
HeaderMessage ==
    /\ conn.state = "ready"
    /\ fx.state = "open"
    /\ op \in {"list", "search"}
    /\ fx.sent < Len(fx.uids)
    /\ fx' = [fx EXCEPT !.sent = @ + 1]
    /\ run' = [run EXCEPT !.results = Append(@, EmailMessage(fx.uids[fx.sent + 1]))]
    /\ seen' = IF MarkSeenOf(fx.options) /\ conn.readOnly # Some(TRUE)
               THEN seen \cup {fx.uids[fx.sent + 1]} ELSE seen
    /\ UNCHANGED <<op, ids, idType, params, conn, promise, log, tmp, nerr, call, ret>>

\* 'error' of the header fetch: reject(err)
HeaderFetchError ==
    /\ conn.state = "ready"
    /\ fx.state = "open"
    /\ op \in {"list", "search"}
    /\ fx' = [fx EXCEPT !.state = "errored"]
    /\ log' = Settle(log, "fetchHeaders", "error")
    /\ promise' = Reject(promise, <<"EFETCH">>)
    /\ UNCHANGED <<op, ids, idType, params, conn, run, seen, tmp, nerr, call, ret>>

\* 'end' of the header fetch: imap.end(), sort, resolve
HeaderFetchEnd ==
    /\ conn.state = "ready"
    /\ fx.state \in {"open", "errored"}
    /\ fx.state = "open" => fx.sent = Len(fx.uids)
    /\ op \in {"list", "search"}
    /\ fx' = [fx EXCEPT !.state = "ended"]
    /\ conn' = [conn EXCEPT !.ended = TRUE]
    /\ run' = [run EXCEPT !.pc = "done", !.results = SortNewestFirst(@)]
    /\ log' = Settle(log, "fetchHeaders", "ok")
    /\ promise' = Resolve(promise,
          IF op = "list" THEN SortNewestFirst(run.results)
          ELSE [messages |-> SortNewestFirst(run.results), totalCount |-> run.total,
                query |-> params.query])
    /\ UNCHANGED <<op, ids, idType, params, seen, tmp, nerr, call, ret>>

Next ==
    \/ ConnReady
    \/ ConnError
    \/ OpenBoxOk
    \/ OpenBoxErr
    \/ SearchOk
    \/ SearchErr
    \/ FetchMessage
    \/ FetchData
    \/ FetchError
    \/ FetchEnd
    \/ ParseOk
    \/ ParseErr
    \/ WriteOk
    \/ WriteErr
    \/ ContentOpenBoxOk
    \/ ContentFetchError
    \/ ContentFetchEnd
    \/ ContentParseOk
    \/ ContentParseErr
    \/ ContentWriteOk
    \/ ContentWriteErr
    \/ ListOpenBoxOk
    \/ SearchOpenBoxOk
    \/ QueryOk
    \/ QueryErr
    \/ HeaderMessage
    \/ HeaderFetchError
    \/ HeaderFetchEnd

Spec == Init /\ [][Next]_vars

(***************************************************************************)
(* The operations under the scheduling the event loop and the library      *)
(* give: a connection that is connecting becomes ready or errors, and an   *)
(* exchange that has been issued delivers its events up to the terminal    *)
(* one ('end' or 'error' of a fetch, the callback of openBox and search,   *)
(* the settling of the decoder's and of writeFile's promise).              *)
(***************************************************************************)
ConnectionSettles == conn.state = "connecting" /\ (ConnReady \/ ConnError)

OpenBoxAnswers == OpenBoxErr \/ OpenBoxOk
SearchAnswersArrive == SearchErr \/ SearchOk
FetchEvents == FetchMessage \/ FetchData \/ FetchError \/ FetchEnd
ParseSettles == ParseErr \/ ParseOk
WriteSettles == WriteErr \/ WriteOk

SpecLive ==
    /\ Init
    /\ [][Next]_vars
    /\ WF_vars(ConnectionSettles)
    /\ WF_vars(OpenBoxAnswers)
    /\ WF_vars(SearchAnswersArrive)
    /\ WF_vars(FetchEvents)
    /\ WF_vars(ParseSettles)
    /\ WF_vars(WriteSettles)

(***************************************************************************)
(* The pure helpers applied on their own: the attachment filter on a list  *)
(* of attachments, and the placement decision on one attachment.           *)
(***************************************************************************)
Att(filename, contentType) ==
    [filename |-> filename, contentType |-> contentType, content |-> Buf("x", 1, 1),
     size |-> Some(1)]

S_imagepng == <<"i", "m", "a", "g", "e", "/", "p", "n", "g">>
S_imagejpeg == <<"i", "m", "a", "g", "e", "/", "j", "p", "e", "g">>
S_json == <<"a", "p", "p", "l", "i", "c", "a", "t", "i", "o", "n", "/", "j", "s", "o", "n">>

\* the attachments a filter is applied to
FilterAttachments ==
    { Att(Some(<<"a", ".", "p", "d", "f">>), Some(S_pdf)),
      Att(Some(<<"R", ".", "P", "D", "F">>), Some(<<"A", "p", "p", "l", "i", "c", "a", "t", "i", "o", "n", "/", "P", "D", "F">>)),
      Att(Some(<<"i", ".", "p", "n", "g">>), Some(S_imagepng)),
      Att(None, Some(S_imagejpeg)),
      Att(Some(<<"x", ".", "j", "s", "o", "n">>), Some(S_json)),
      Att(Some(<<"m", ".", "p", "n", "g">>), Some(<<"i", "m", "a", "g", "e", "r", "y", "/", "p", "n", "g">>)),
      Att(Some(<<"b", ".", "p", "d", "f">>), None),
      [Att(Some(<<"c", ".", "p", "d", "f">>), Some(S_pdf))
          EXCEPT !.content = Buf("x", 3, 3), !.size = Some(3)] }

MaxAttachments == 2

AttachmentLists ==
    UNION { [1..n -> FilterAttachments] : n \in 0..MaxAttachments }

\* the filters applied: each field alone, fields together, a pattern with
\* the i flag, with the g flag, and patterns or flags that do not compile
FilterPool ==
    { None,
      Some(EmptyFilter),
      Some([EmptyFilter EXCEPT !.name = Some(<<"A", ".", "p", "d", "f">>)]),
      Some([EmptyFilter EXCEPT !.nameContains = Some(<<"P", "D", "F">>)]),
      Some([EmptyFilter EXCEPT !.nameRegex = Some(<<"p", "d", "f", "$">>)]),
      Some([EmptyFilter EXCEPT !.nameRegex = Some(<<"p", "d", "f">>), !.nameRegexFlags = Some(<<"i">>)]),
      Some([EmptyFilter EXCEPT !.nameRegex = Some(<<"p", "d", "f">>), !.nameRegexFlags = Some(<<"g">>)]),
      Some([EmptyFilter EXCEPT !.nameRegex = Some(<<"(">>)]),
      Some([EmptyFilter EXCEPT !.nameRegex = Some(<<"p", "d", "f">>), !.nameRegexFlags = Some(<<"x">>)]),
      Some([EmptyFilter EXCEPT !.mimeTypes = Some(<<<<"i", "m", "a", "g", "e", "/", "*">>>>)]),
      Some([EmptyFilter EXCEPT !.mimeTypes = Some(<<<<"A", "p", "p", "l", "i", "c", "a", "t", "i", "o", "n", "/", "P", "D", "F">>, S_imagejpeg>>)]),
      Some([EmptyFilter EXCEPT !.mimeTypes = Some(<<>>)]),
      Some([EmptyFilter EXCEPT !.nameContains = Some(<<"p", "d", "f">>), !.mimeTypes = Some(<<S_pdf>>)]),
      Some([EmptyFilter EXCEPT !.nameContains = Some(<<".", "p">>),
                               !.nameRegex = Some(<<"^", "i">>),
                               !.mimeTypes = Some(<<<<"i", "m", "a", "g", "e", "/", "*">>>>)]) }

\* the filter argument as a caller writes it: the fields of the schema
\* and the two size fields of the tool's documentation
Request(filter, minSize, maxSize) == [filter |-> filter, minSize |-> minSize, maxSize |-> maxSize]

FilterRequests ==
    { Request(filter, None, None) : filter \in FilterPool }
        \cup { Request(Some(EmptyFilter), Some(2), None),
               Request(Some(EmptyFilter), None, Some(2)) }

\* AttachmentFilterSchema.parse: an object schema keeps the keys it
\* declares and drops the others
ParseAttachmentFilter(requested) == requested.filter

\* the declared types and the text lengths the placement is decided for
PlacementTypes ==
    { <<"t", "e", "x", "t", "/", "p", "l", "a", "i", "n">>,
      <<"T", "E", "X", "T", "/", "H", "T", "M", "L">>,
      <<"t", "e", "x", "t", "/", "m", "a", "r", "k", "d", "o", "w", "n">>,
      <<"t", "e", "x", "t", "/", "x", "-", "m", "a", "r", "k", "d", "o", "w", "n">>,
      <<"t", "e", "x", "t", "/", "m", "d">>,
      <<"a", "p", "p", "l", "i", "c", "a", "t", "i", "o", "n", "/", "j", "s", "o", "n">>,
      <<"a", "p", "p", "l", "i", "c", "a", "t", "i", "o", "n", "/", "x", "m", "l">>,
      <<"t", "e", "x", "t", "/", "x", "m", "l">>,
      <<"a", "p", "p", "l", "i", "c", "a", "t", "i", "o", "n", "/", "y", "a", "m", "l">>,
      <<"a", "p", "p", "l", "i", "c", "a", "t", "i", "o", "n", "/", "x", "-", "y", "a", "m", "l">>,
      <<"a", "p", "p", "l", "i", "c", "a", "t", "i", "o", "n", "/", "p", "d", "f">>,
      <<"a", "p", "p", "l", "i", "c", "a", "t", "i", "o", "n", "/", "o", "c", "t", "e", "t", "-", "s", "t", "r", "e", "a", "m">>,
      <<"a", "p", "p", "l", "i", "c", "a", "t", "i", "o", "n", "/", "j", "s", "o", "n", "x">>,
      <<"t", "e", "x", "t">>,
      <<"i", "m", "a", "g", "e", "/", "p", "n", "g">> }

\* what simpleParser can answer for the bodies of a message: html is a
\* string or false, text and textAsHtml are strings or undefined
ParsedMails ==
    { [subject |-> None, html |-> html, text |-> text, textAsHtml |-> textAsHtml,
       attachments |-> <<>>] :
        html \in { None, Some(<<"<", "b", ">", "x", "<", "/", "b", ">">>) },
        text \in { None, Some(<<"h", "i">>) },
        textAsHtml \in { None, Some(<<"<", "p", ">", "h", "i", "<", "/", "p", ">">>) } }

\* attachment names given to writeAttachmentToTemp
PathNames ==
    { <<"d", "/", "r", ".", "p", "d", "f">>, <<".", ".">>, <<".">>, <<"a", "\\", "b">>,
      <<".", ".", "/", "x">>, <<"/", ".", ".", "/", ".", ".", "/", "e">>,
      <<".", ".", "\\", "x">>, <<"/">>, <<>>, <<"b", ".", "t", "x", "t">> }

PlacementLengths == { 0, InlineLimit - 1, InlineLimit, InlineLimit + 1 }

InitPure ==
    /\ op = "none"
    /\ ids = <<>>
    /\ idType = "uid"
    /\ conn = [NewConn EXCEPT !.state = "none"]
    /\ promise = Pending
    /\ run = IdleRun
    /\ fx = NoFetch
    /\ log = <<>>
    /\ seen = InitSeen
    /\ tmp = {}
    /\ nerr = 0
    /\ ret = None
    /\ \/ \E requested \in FilterRequests, attachments \in AttachmentLists :
             /\ params = [NoParams EXCEPT !.filter = ParseAttachmentFilter(requested)]
             /\ call = [fn |-> "filter", attachments |-> attachments, requested |-> requested]
       \/ \E format \in Formats, foundMessage \in BOOLEAN, parsed \in ParsedMails :
             /\ params = [NoParams EXCEPT !.format = format]
             /\ call = [fn |-> "finalize", id |-> <<"2">>, foundMessage |-> foundMessage,
                        raw |-> BufferConcat(RawChunks(2)), parsed |-> parsed]
       \/ /\ params = NoParams
          /\ \E filename \in PathNames, uid \in StoreUids, token \in Tokens :
                call = [fn |-> "path", filename |-> filename, uid |-> NatToString(uid),
                        token |-> token]
       \/ /\ params = NoParams
          /\ \E contentType \in PlacementTypes, chars \in PlacementLengths :
                call = [fn |-> "place", contentType |-> contentType,
                        content |-> Buf("x", chars, chars)]

\* buildAttachmentPredicate(filter), then attachments.filter(predicate)
ApplyFilter ==
    /\ call.fn = "filter"
    /\ ret = None
    /\ ret' = Some(IF PredicateThrows(params.filter)
                   THEN [threw |-> Some(InvalidNameRegex), selected |-> <<>>]
                   ELSE [threw |-> None, selected |-> FilterSeq(call.attachments)])
    /\ UNCHANGED <<op, ids, idType, params, conn, promise, run, fx, log, seen, tmp, nerr, call>>

\* shouldInlineTextAttachment(contentType, content)
ApplyPlacement ==
    /\ call.fn = "place"
    /\ ret = None
    /\ ret' = Some(shouldInlineTextAttachment(call.contentType, call.content))
    /\ UNCHANGED <<op, ids, idType, params, conn, promise, run, fx, log, seen, tmp, nerr, call>>

\* finalize() of getMessageContent up to the body
ApplyFinalize ==
    /\ call.fn = "finalize"
    /\ ret = None
    /\ ret' = Some(FinalizeBody(call.id, call.foundMessage, params.format, call.raw, call.parsed))
    /\ UNCHANGED <<op, ids, idType, params, conn, promise, run, fx, log, seen, tmp, nerr, call>>

\* the filePath of writeAttachmentToTemp(content, filename, uid)
ApplyPath ==
    /\ call.fn = "path"
    /\ ret = None
    /\ ret' = Some(AttachmentPath(call.filename, call.uid, call.token))
    /\ UNCHANGED <<op, ids, idType, params, conn, promise, run, fx, log, seen, tmp, nerr, call>>

NextPure == ApplyFilter \/ ApplyPlacement \/ ApplyPath \/ ApplyFinalize

SpecPure == InitPure /\ [][NextPure]_vars

(***************************************************************************)
(* fetchRawByUid on its own: one call, and the events of its fetch in any  *)
(* order.  'error' and 'end' are listened to with once; the chunks of the  *)
(* body stream are Buffers or strings.                                     *)
(***************************************************************************)
MaxChunks == 2

\* a Buffer, a string of ASCII characters and a string with the character
\* U+00E9
ChunkPool == { [isBuffer |-> TRUE, data |-> <<98, 255>>],
               [isBuffer |-> FALSE, data |-> <<115>>],
               [isBuffer |-> FALSE, data |-> <<233>>] }

\* history: the chunks delivered so far, in delivery order
Delivered(lg) ==
    LET events == SelectSeq(lg, LAMBDA e : e.kind = "data")
    IN  [k \in 1..Len(events) |-> events[k].arg]

\* the uids fetchRawByUid is called with: those of the store and one more
FetchUids == StoreUids \cup { UidOfSeq(0) }

InitFetch ==
    /\ op = "fetchRaw"
    /\ ids = <<>>
    /\ idType = "uid"
    /\ params = NoParams
    /\ conn = [NewConn EXCEPT !.state = "ready", !.readOnly = Some(OpenReadOnly)]
    /\ promise = Pending
    /\ run = IdleRun
    /\ \E uid \in FetchUids :
          /\ fx = NewFetch(uid, FetchRawOptions)
          /\ log = Issue(<<>>, "fetch", 0, [uid |-> uid, options |-> FetchRawOptions])
    /\ seen = InitSeen
    /\ tmp = {}
    /\ nerr = 0
    /\ call = NoCall
    /\ ret = None

\* 'message'
EmitMessage ==
    /\ op = "fetchRaw"
    /\ fx.uids[1] \in StoreUids
    /\ ~fx.found
    /\ fx' = OnFetchMessage(fx)
    /\ UNCHANGED <<op, ids, idType, params, conn, promise, run, log, seen, tmp, nerr, call, ret>>

\* 'data' of the body stream
EmitData ==
    /\ op = "fetchRaw"
    /\ fx.found
    /\ fx.sent < MaxChunks
    /\ \E chunk \in ChunkPool :
          /\ fx' = [OnFetchData(fx, chunk) EXCEPT !.sent = @ + 1]
          /\ log' = Append(log, [kind |-> "data", idx |-> 0, arg |-> chunk,
                                 outcome |-> "ok", answer |-> <<>>])
    /\ UNCHANGED <<op, ids, idType, params, conn, promise, run, seen, tmp, nerr, call, ret>>

\* 'error', before or after 'end'
EmitError ==
    /\ op = "fetchRaw"
    /\ fx.state \in {"open", "ended"}
    /\ fx' = [OnFetchError(fx, <<"EFETCH">>) EXCEPT
                 !.state = IF @ = "open" THEN "errored" ELSE "closed"]
    /\ log' = Settle(log, "fetch", "error")
    /\ UNCHANGED <<op, ids, idType, params, conn, promise, run, seen, tmp, nerr, call, ret>>

\* 'end', before or after 'error'
EmitEnd ==
    /\ op = "fetchRaw"
    /\ fx.state \in {"open", "errored"}
    /\ fx' = [OnFetchEnd(fx) EXCEPT !.state = IF @ = "open" THEN "ended" ELSE "closed"]
    /\ log' = SettleWith(log, "fetch", IF fx.found THEN "ok" ELSE "notfound", Delivered(log))
    /\ UNCHANGED <<op, ids, idType, params, conn, promise, run, seen, tmp, nerr, call, ret>>

NextFetch == EmitMessage \/ EmitData \/ EmitError \/ EmitEnd

SpecFetch == InitFetch /\ [][NextFetch]_vars

(***************************************************************************)
(* Vocabulary of the properties.                                           *)
(***************************************************************************)
Settled == promise.state # "pending"
Resolved == promise.state = "resolved"
Rejected == promise.state = "rejected"

\* the mailbox has been opened (the callback of openBox came without error)
BoxOpened == conn.readOnly # None

\* the positions in the history of the exchanges of one kind issued for
\* the identifier at position i
ExchangesOf(kind, i) == { j \in 1..Len(log) : log[j].kind = kind /\ log[j].idx = i }

\* the store has been asked something on behalf of the identifier at i
StoreAccessFor(i) == ExchangesOf("search", i) \cup ExchangesOf("fetch", i) # {}

\* an exchange issued for the identifier at position i has failed
ExchangeFailedFor(i) ==
    \E j \in 1..Len(log) : log[j].idx = i /\ log[j].outcome \in {"error", "notfound"}

\* the identifier at position i has failed: it resolved to no handle (no
\* fetch was issued for it) or one of its exchanges failed
FailedAt(i) == ExchangesOf("fetch", i) = {} \/ ExchangeFailedFor(i)

\* a set of positions of the history, as the sequence of its elements in
\* increasing order
Ordered(S) == SelectSeq([j \in 1..Len(log) |-> j], LAMBDA j : j \in S)

(***************************************************************************)
(* C1.  For downloadAttachments and peekMessages, a resolved operation     *)
(* returns exactly one record per input identifier, record i carrying the  *)
(* i-th identifier, duplicates included, whatever succeeded or failed;     *)
(* while the loop runs the records pushed so far are those of the first    *)
(* identifiers, in order.                                                  *)
(***************************************************************************)
C1_OneRecordPerIdentifierInOrder ==
    Batch =>
        /\ Len(run.results) <= Len(ids)
        /\ \A i \in 1..Len(run.results) : run.results[i].id = ids[i]
        /\ Resolved =>
              /\ Len(promise.value[1]) = Len(ids)
              /\ \A i \in 1..Len(ids) : promise.value[1][i].id = ids[i]

\* a resolved batch of the same identifier twice, found once and failed once
C1_Witness ==
    /\ Batch /\ Resolved
    /\ Len(ids) = 2 /\ ids[1] = ids[2]
    /\ promise.value[1][1].found
    /\ ~promise.value[1][2].found

(***************************************************************************)
(* C2.  In a batch in which exactly one identifier fails (resolution miss, *)
(* fetch error, decode error or write error) the operation does not        *)
(* reject, and the record at the failing identifier's position is the only *)
(* one with found = false.                                                 *)
(***************************************************************************)
C2_OneFailureStaysLocal ==
    Batch =>
        /\ BoxOpened /\ nerr = 0 => ~Rejected
        /\ Resolved /\ Cardinality({ i \in 1..Len(ids) : FailedAt(i) }) = 1
              => \A i \in 1..Len(ids) : promise.value[1][i].found = ~FailedAt(i)

\* two identifiers, the first failed by a write error, the second found
C2_Witness ==
    /\ op = "download" /\ Resolved
    /\ Len(ids) = 2
    /\ \E j \in ExchangesOf("write", 1) : log[j].outcome = "error"
    /\ ~FailedAt(2)
    /\ promise.value[1][2].found

(***************************************************************************)
(* C3.  On every path on which the promise of a batch operation settles    *)
(* (completion, connection failure, authentication failure, open-mailbox   *)
(* failure) end() has been called on the connection.                       *)
(***************************************************************************)
C3_SettledBatchHasEnded ==
    Batch /\ Settled => conn.ended

(***************************************************************************)
(* C4.  Whenever the promise of getMessageContent settles after the        *)
(* connection was opened, on completion and on every failure, end() has    *)
(* been called on that connection.                                         *)
(***************************************************************************)
C4_SettledContentHasEnded ==
    op = "content" /\ conn.state = "ready" /\ nerr = 0 /\ Settled => conn.ended

(***************************************************************************)
(* C5.  For listMessages and searchMessages the session is closed on every *)
(* path on which the promise settles, including a search without matches,  *)
(* a search error, a fetch error and an open-mailbox error.                *)
(***************************************************************************)
C5_SettledListingHasEnded ==
    op \in {"list", "search"} /\ conn.state = "ready" /\ nerr = 0 /\ Settled => conn.ended

(***************************************************************************)
(* C6.  If the connection fails before it is ready (connect or             *)
(* authentication error) or opening the mailbox fails, the batch operation *)
(* rejects with that error, returns no result list, and no search or fetch *)
(* is issued for any identifier.                                           *)
(***************************************************************************)
OpenFailed == \E j \in 1..Len(log) : log[j].kind = "openBox" /\ log[j].outcome = "error"

C6_SessionFailureAbortsBatch ==
    Batch =>
        /\ conn.state = "failed" \/ OpenFailed
              => /\ Rejected
                 /\ run.results = <<>>
                 /\ \A j \in 1..Len(log) : log[j].kind \notin {"search", "fetch"}
        /\ conn.state = "failed" => promise.error = Some(<<"ECONN">>)
        /\ OpenFailed /\ nerr = 0 => promise.error = Some(<<"EOPEN">>)

\* opening the mailbox has failed on a connection that raised no error
C6_Witness == Batch /\ OpenFailed /\ nerr = 0 /\ Len(ids) = 2

(***************************************************************************)
(* C7 as stated: once the mailbox has been opened a batch operation never  *)
(* rejects, whatever fails (a connection 'error' event included).          *)
(***************************************************************************)
C7_NeverRejectsOnceOpen ==
    Batch /\ BoxOpened => ~Rejected

(***************************************************************************)
(* C7, amended.  Once the mailbox has been opened a batch operation        *)
(* rejects only if the connection emits an 'error' event.  Every failure   *)
(* of a search, fetch, decode or temp-file write is recorded in the record *)
(* of the identifier being processed, processing continues with the next   *)
(* identifier, and the finished loop has one record per identifier, which  *)
(* the operation resolves with unless a connection error rejected it.      *)
(***************************************************************************)
C7_OnlyConnectionErrorRejects ==
    Batch =>
        /\ BoxOpened /\ Rejected => nerr > 0
        /\ \A i \in 1..Len(ids) :
              ExchangeFailedFor(i)
                 => /\ i <= Len(run.results)
                    /\ ~run.results[i].found
                    /\ run.results[i].error # None
        /\ run.pc \in {"search", "fetch", "parse", "write"} => run.idx = Len(run.results) + 1
        /\ run.pc = "done" => Len(run.results) = Len(ids) /\ conn.ended
        /\ run.pc = "done" /\ nerr = 0 => Resolved
        /\ Resolved => Len(promise.value[1]) = Len(ids)

\* every identifier of a batch of two failed in an exchange, and the
\* operation resolved
C7_Witness ==
    /\ Batch /\ Resolved
    /\ Len(ids) = 2
    /\ ExchangeFailedFor(1) /\ ExchangeFailedFor(2)

(***************************************************************************)
(* C8.  For a message-id identifier (taken without surrounding             *)
(* whitespace) the MESSAGE-ID header is searched with the bracketed form   *)
(* first: without brackets the searches are <input> then input, with       *)
(* brackets the input as given then the input without them; the second     *)
(* search is issued only after the first found nothing, and the handle     *)
(* fetched is the first match of the first search that matched, whichever  *)
(* form it was.                                                            *)
(***************************************************************************)
Bracketed(t) == Len(t) >= 1 /\ t[1] = "<" /\ t[Len(t)] = ">"

C8_BracketedFormFirst ==
    Batch /\ idType = "message-id" =>
        \A i \in 1..Len(ids) :
            LET t == Trim(ids[i])
                S == Ordered(ExchangesOf("search", i))
                F == ExchangesOf("fetch", i)
            IN  /\ Len(S) <= 2
                /\ \A k \in 1..Len(S) : log[S[k]].arg.header = "MESSAGE-ID"
                /\ t # <<>> /\ (i <= Len(run.results) \/ (run.idx = i /\ BoxOpened))
                      => Len(S) >= 1
                /\ Len(S) >= 1
                      => log[S[1]].arg.value = IF Bracketed(t) THEN t ELSE <<"<">> \o t \o <<">">>
                /\ Len(S) = 2
                      => /\ log[S[2]].arg.value =
                               IF Bracketed(t) THEN SubSeq(t, 2, Len(t) - 1) ELSE t
                         /\ log[S[1]].outcome = "ok" /\ log[S[1]].answer = <<>>
                /\ \A f \in F :
                      /\ Len(S) >= 1
                      /\ log[S[Len(S)]].answer # <<>>
                      /\ log[f].arg.uid = log[S[Len(S)]].answer[1]
                /\ (\E k \in 1..Len(S) : log[S[k]].answer # <<>>) => F # {}

\* the first identifier, without brackets, is resolved by its second
\* search; the second, with brackets, by its first
C8_Witness ==
    /\ Batch /\ idType = "message-id" /\ Len(ids) = 2
    /\ ~Bracketed(Trim(ids[1])) /\ Bracketed(Trim(ids[2]))
    /\ Cardinality(ExchangesOf("search", 1)) = 2
    /\ Cardinality(ExchangesOf("search", 2)) = 1
    /\ \E f \in ExchangesOf("fetch", 1) : log[f].arg.uid = 3
    /\ \E f \in ExchangesOf("fetch", 2) : log[f].arg.uid = 3

(***************************************************************************)
(* C9.  A uid-kind identifier of downloadAttachments or peekMessages, or   *)
(* the id of getMessageContent, that is not a base-10 positive integer     *)
(* (digits followed by other characters included) causes no search and no  *)
(* fetch.                                                                   *)
(***************************************************************************)
IsBase10PositiveInteger(s) ==
    /\ s # <<>>
    /\ \A k \in 1..Len(s) : IsDigit(s[k])
    /\ DigitsValue(s, 0) > 0

C9_NonIntegerUidNeverReachesStore ==
    op \in {"download", "peek", "content"} /\ idType = "uid" =>
        \A i \in 1..Len(ids) :
            ~IsBase10PositiveInteger(ids[i]) => ~StoreAccessFor(i)

(***************************************************************************)
(* C10.  Peeking, downloading attachments and fetching message content     *)
(* never change a seen flag: every mailbox is opened read-only, every      *)
(* fetch is issued with markSeen = false, and the seen flags of the store  *)
(* stay what they were, repeated peeks of one identifier included.         *)
(***************************************************************************)
C10_SeenFlagsUntouched ==
    op \in {"peek", "download", "content"} =>
        /\ seen = InitSeen
        /\ \A j \in 1..Len(log) :
              /\ log[j].kind = "openBox" => log[j].arg.readOnly
              /\ log[j].kind = "fetch" => ~MarkSeenOf(log[j].arg.options)

\* the same unseen message peeked twice in one batch
C10_Witness ==
    /\ op = "peek" /\ Resolved
    /\ Len(ids) = 2 /\ ids[1] = ids[2]
    /\ promise.value[1][1].found /\ promise.value[1][2].found
    /\ \E f \in ExchangesOf("fetch", 2) : log[f].arg.uid \notin InitSeen

(***************************************************************************)
(* C11.  Placement decision: an attachment is returned inline exactly when *)
(* its declared type is in an eligible family (text/*, which holds the     *)
(* markdown types, or application/json, application/xml, text/xml,         *)
(* application/yaml, application/x-yaml) and its decoded text is shorter   *)
(* than 1000; text/plain of 999 is inline, of 1000 or more is written to a *)
(* file, and application/pdf of any length, 0 included, is written.        *)
(***************************************************************************)
EligibleFamily(contentType) ==
    LET t == ToLowerCase(contentType)
    IN  \/ Len(t) >= 5 /\ SubSeq(t, 1, 5) = <<"t", "e", "x", "t", "/">>
        \/ t \in { S_json,
                   <<"a", "p", "p", "l", "i", "c", "a", "t", "i", "o", "n", "/", "x", "m", "l">>,
                   <<"a", "p", "p", "l", "i", "c", "a", "t", "i", "o", "n", "/", "y", "a", "m", "l">>,
                   <<"a", "p", "p", "l", "i", "c", "a", "t", "i", "o", "n", "/", "x", "-", "y", "a", "m", "l">> }

C11_InlineIffEligibleAndShort ==
    call.fn = "place" /\ ret # None
        => /\ ret[1] <=> (EligibleFamily(call.contentType) /\ call.content.chars < 1000)
           /\ call.contentType = S_textplain /\ call.content.chars = 999 => ret[1]
           /\ call.contentType = S_textplain /\ call.content.chars >= 1000 => ~ret[1]
           /\ call.contentType = S_pdf => ~ret[1]

\* the placement has been decided for text/plain of 999 characters, and it
\* is inline
C11_Witness ==
    /\ call.fn = "place"
    /\ call.contentType = S_textplain
    /\ call.content.chars = 999
    /\ ret = Some(TRUE)

(***************************************************************************)
(* C12.  Content-type filter matching: an attachment passes a configured   *)
(* mimeTypes set exactly when its lowercased declared type equals one      *)
(* configured (lowercased) type or, for a configured wildcard entry T/*,   *)
(* begins with T/ ; so ["image/*"] matches image/png and image/jpeg, does  *)
(* not match application/json, and does not match a type whose major type  *)
(* merely starts with the letters of T.                                    *)
(***************************************************************************)
DeclaredType(attachment) ==
    IF attachment.contentType = None THEN <<>> ELSE ToLowerCase(attachment.contentType[1])

\* the matching rule as stated: the prefix of a wildcard entry is T/
TypeMatchesAsStated(mimeTypes, attachment) ==
    \E k \in 1..Len(mimeTypes) :
        LET mime == ToLowerCase(mimeTypes[k])
            n == Len(mime)
        IN  IF n >= 2 /\ SubSeq(mime, n - 1, n) = <<"/", "*">>
            THEN /\ Len(DeclaredType(attachment)) >= n - 1
                 /\ SubSeq(DeclaredType(attachment), 1, n - 1) = SubSeq(mime, 1, n - 1)
            ELSE DeclaredType(attachment) = mime

\* the filter configures a content-type set and nothing else
OnlyMimeTypes(filter) ==
    /\ filter # None
    /\ filter[1].mimeTypes # None /\ filter[1].mimeTypes[1] # <<>>
    /\ filter[1].name = None /\ filter[1].nameContains = None /\ filter[1].nameRegex = None

C12_ContentTypeFilterMatches ==
    call.fn = "filter" /\ ret # None /\ OnlyMimeTypes(params.filter)
        => ret[1].selected =
              SelectSeq(call.attachments,
                        LAMBDA a : TypeMatchesAsStated(params.filter[1].mimeTypes[1], a))

(***************************************************************************)
(* C13.  Filter conjunction: an attachment is selected exactly when it     *)
(* satisfies every configured filename constraint (exact name, substring,  *)
(* pattern) and, when a content-type set is configured, the content-type   *)
(* constraint; with no filter every attachment is selected; an attachment  *)
(* without a filename is compared as the empty filename.                   *)
(***************************************************************************)
\* the filename satisfies the pattern: it matches at some position
SatisfiesPattern(pattern, flags, filename) ==
    \E p \in 0..Len(filename) : MatchesAt(NewRegExp(pattern, flags), filename, p)

SatisfiesEveryConstraint(filter, attachment) ==
    LET filename == IF attachment.filename = None THEN <<>> ELSE attachment.filename[1]
    IN  /\ filter.name # None => ToLowerCase(filename) = ToLowerCase(filter.name[1])
        /\ filter.nameContains # None
              => Includes(ToLowerCase(filename), ToLowerCase(filter.nameContains[1]))
        /\ filter.nameRegex # None
              => SatisfiesPattern(filter.nameRegex[1],
                                  IF filter.nameRegexFlags = None THEN <<>>
                                  ELSE filter.nameRegexFlags[1], filename)
        /\ filter.mimeTypes # None /\ filter.mimeTypes[1] # <<>>
              => MimeMatches([k \in 1..Len(filter.mimeTypes[1]) |->
                                 ToLowerCase(filter.mimeTypes[1][k])],
                             DeclaredType(attachment))

C13_SelectedIffEveryConstraint ==
    call.fn = "filter" /\ ret # None /\ ret[1].threw = None
        => ret[1].selected =
              IF params.filter = None THEN call.attachments
              ELSE SelectSeq(call.attachments,
                             LAMBDA a : SatisfiesEveryConstraint(params.filter[1], a))

(***************************************************************************)
(* C14.  When the filter's nameRegex does not compile, downloadAttachments *)
(* fails with an 'Invalid nameRegex' error before any connection is        *)
(* created: no connect, open-mailbox, search or fetch is attempted and no  *)
(* identifier is partially processed.                                      *)
(***************************************************************************)
PatternDoesNotCompile ==
    /\ params.filter # None
    /\ params.filter[1].nameRegex # None
    /\ RegExpThrows(params.filter[1].nameRegex[1],
                    IF params.filter[1].nameRegexFlags = None THEN <<>>
                    ELSE params.filter[1].nameRegexFlags[1])

C14_InvalidPatternFailsFirst ==
    op = "download" /\ PatternDoesNotCompile
        => /\ promise = Reject(Pending, InvalidNameRegex)
           /\ conn.state = "none"
           /\ log = <<>>
           /\ run.results = <<>>
           /\ tmp = {}

\* downloadAttachments has been called with several identifiers and a
\* pattern that does not compile, and its promise is rejected
C14_Witness ==
    /\ op = "download"
    /\ PatternDoesNotCompile
    /\ Len(ids) > 1
    /\ Rejected

(***************************************************************************)
(* C15.  In a batch, every record with found=false carries a populated     *)
(* (non-empty) error string giving the cause, the record of a message-id   *)
(* identifier for which no candidate search returned a match included.     *)
(***************************************************************************)
C15_FailedRecordCarriesError ==
    Batch => \A k \in 1..Len(run.results) :
                ~run.results[k].found
                    => run.results[k].error # None /\ run.results[k].error[1] # <<>>

(***************************************************************************)
(* C16.  When writing one attachment to temporary storage fails during     *)
(* downloadAttachments, only that attachment's result is a failure: the    *)
(* other matching attachments of the same message are still returned in    *)
(* that identifier's record, and the remaining identifiers are still       *)
(* processed.                                                              *)
(***************************************************************************)
\* the positions in the history of the failed writes
FailedWrites == { j \in 1..Len(log) : log[j].kind = "write" /\ log[j].outcome = "error" }

C16_WriteFailureLosesOneAttachment ==
    op = "download"
        => \A j \in FailedWrites :
              /\ Len(run.results) >= log[j].idx
                    => Len(run.results[log[j].idx].attachments) >= log[j].arg.of - 1
              /\ Resolved => Len(promise.value[1]) = Len(ids)

(***************************************************************************)
(* C17.  Round trip: when the operation returns, the bytes stored at the   *)
(* savedTo path of every materialized attachment result are the bytes of   *)
(* the original attachment entry; for getMessageContent with saveRawToFile *)
(* the file at rawFilePath holds exactly the raw message bytes and rawSize *)
(* is their count.                                                         *)
(***************************************************************************)
\* what reading the file back gives
ReadFile(path) == { f.content : f \in { g \in tmp : g.path = path } }

\* the attachment entries of the message a record is about that carry the
\* filename of an attachment result
OriginalEntries(record, result) ==
    LET uid == ParseInt10(record.uid[1]).val
        entries == Decoded(uid).attachments
    IN  { entries[k].content : k \in { n \in 1..Len(entries) :
                                          EffectiveName(entries[n], uid) = result.filename } }

\* the bytes of the raw message with uid u, as the store holds them
OriginalRaw(u) == BufferConcat(RawChunks(u))

PolicySelectsInline(record, result) ==
    \E content \in OriginalEntries(record, result) :
        EligibleFamily(result.contentType) /\ content.chars < 1000

C18_ExactlyOnePlacement ==
    op = "download"
        => \A k \in 1..Len(run.results) :
              run.results[k].found
                 => \A n \in 1..Len(run.results[k].attachments) :
                       LET result == run.results[k].attachments[n]
                       IN  /\ (result.inlineContent # None) # (result.savedTo # None)
                           /\ result.inlineContent # None
                                 <=> PolicySelectsInline(run.results[k], result)

\* a record holds an inline result and a materialized result
C18_Witness ==
    /\ op = "download"
    /\ \E k \in 1..Len(run.results) :
          /\ run.results[k].found
          /\ \E n, m \in 1..Len(run.results[k].attachments) :
                /\ run.results[k].attachments[n].inlineContent # None
                /\ run.results[k].attachments[m].savedTo # None

(***************************************************************************)
(* C19.  Within one session there is at most one outstanding protocol      *)
(* exchange at any time: no search or fetch is issued on the connection    *)
(* before the terminal event (callback, end or error) of the previously    *)
(* issued exchange has fired.                                              *)
(***************************************************************************)
ProtocolKinds == {"openBox", "search", "fetch", "fetchHeaders"}

\* the positions in the history of the protocol exchanges
ProtocolExchanges == { j \in 1..Len(log) : log[j].kind \in ProtocolKinds }

C19_OneOutstandingExchange ==
    \A j \in ProtocolExchanges :
        log[j].outcome = "pending" => \A k \in ProtocolExchanges : k <= j

\* an exchange is outstanding after three others have ended, one of them
\* with an error
C19_Witness ==
    /\ Cardinality(ProtocolExchanges) >= 4
    /\ \E j \in ProtocolExchanges : log[j].outcome = "pending"
    /\ \E j \in ProtocolExchanges : log[j].outcome = "error"

(***************************************************************************)
(* C20.  fetchRawByUid outcome: if the fetch ends without any              *)
(* message-found signal it fails with a 'Message not found' error; if the  *)
(* fetch emits an error before its end it fails with that transport error  *)
(* (not reported as not-found); otherwise it yields a raw message.  For    *)
(* any order of message, data, error and end events its promise settles    *)
(* with the outcome of the first terminal event.                           *)
(***************************************************************************)
\* the outcome of the first terminal event of the fetch ("pending" before)
FirstTerminal == log[1].outcome

IsPrefix(s, t) == Len(s) <= Len(t) /\ s = SubSeq(t, 1, Len(s))

C20_FirstTerminalEventSettles ==
    op = "fetchRaw"
        => /\ FirstTerminal = "pending" <=> fx.promise.state = "pending"
           /\ FirstTerminal = "notfound"
                 => fx.promise = Reject(Pending, NotFoundForUid(fx.uids[1]))
           /\ FirstTerminal = "error"
                 => fx.promise = Reject(Pending, <<"EFETCH">>)
           /\ FirstTerminal = "ok"
                 => /\ fx.promise.state = "resolved"
                    /\ IsPrefix(fx.promise.value[1], BufferConcat(fx.chunks))

\* the fetch has ended with a message and a chunk, and has emitted an
\* error after that
C20_Witness ==
    /\ op = "fetchRaw"
    /\ fx.state = "closed"
    /\ FirstTerminal = "ok"
    /\ fx.promise.state = "resolved"
    /\ Len(fx.promise.value[1]) > 0

(***************************************************************************)
(* C21.  The raw message produced by a successful fetch is exactly the     *)
(* concatenation, in delivery order, of every body-data chunk delivered    *)
(* before the end event, with no chunk dropped, duplicated or reordered,   *)
(* and with non-buffer chunks converted byte for byte.                     *)
(***************************************************************************)
\* the chunks delivered before the first terminal event of the fetch
DeliveredBeforeEnd == log[1].answer

\* the bytes of a chunk, a string chunk giving one byte per code unit
RECURSIVE ByteForByte(_)
ByteForByte(chunks) ==
    IF chunks = <<>> THEN <<>> ELSE Head(chunks).data \o ByteForByte(Tail(chunks))

C21_RawIsChunksByteForByte ==
    op = "fetchRaw" /\ FirstTerminal = "ok"
        => fx.promise = Resolve(Pending, ByteForByte(DeliveredBeforeEnd))

(***************************************************************************)
(* C22.  Two materializations, in the same batch or in independent         *)
(* operations and even for attachments with the same filename, never       *)
(* write to the same temporary-storage path, so that no materialized file  *)
(* is overwritten by another write.                                        *)
(***************************************************************************)
\* history: the writes that succeeded, as [path, token], in order
Writes ==
    LET done == SelectSeq(log, LAMBDA e : e.kind = "write" /\ e.outcome = "ok")
    IN  [k \in 1..Len(done) |-> done[k].answer[1]]

ResolutionAttempted == ExchangesOf("search", 1) # {}

C23_MessageIdFailsOnlyAfterResolution ==
    (op = "content" /\ ids[1] \in ContentMessageIds /\ promise.state = "rejected")
        => ResolutionAttempted

(***************************************************************************)
(* C24: the result of getMessageContent carries rawFilePath and rawSize    *)
(* exactly when saveRawToFile was requested, whatever the format; when     *)
(* they are present rawSize is the byte length of the raw message (and of  *)
(* the file at rawFilePath), and when saving was not requested no file is  *)
(* written.                                                                *)
(***************************************************************************)
ContentAnswer == promise.value[1]

ReportedSize(attachment) == Nullish(attachment.size, attachment.content.bytes)

C25_SizeFiltersHonoured ==
    call.fn = "filter" /\ ret # None /\ ret[1].threw = None
        => \A k \in 1..Len(ret[1].selected) :
              /\ call.requested.minSize # None
                    => ReportedSize(ret[1].selected[k]) >= call.requested.minSize[1]
              /\ call.requested.maxSize # None
                    => ReportedSize(ret[1].selected[k]) <= call.requested.maxSize[1]

(***************************************************************************)
(* C26: termination.  When a connecting connection becomes ready or        *)
(* errors and every issued exchange delivers its terminal event, a batch   *)
(* operation eventually settles; and when it resolves, it has pushed one   *)
(* record for every identifier, no exchange is outstanding and the         *)
(* session has been ended.                                                 *)
(***************************************************************************)
NothingOutstanding == \A j \in 1..Len(log) : log[j].outcome # "pending"

ResolvedAfterAllIdentifiers ==
    Batch /\ Resolved =>
        /\ Len(promise.value[1]) = Len(ids)
        /\ run.pc = "done" /\ run.idx = Len(ids) + 1
        /\ NothingOutstanding
        /\ conn.ended

C26_BatchEventuallySettles ==
    /\ [](Batch => <>Settled)
    /\ []ResolvedAfterAllIdentifiers

C26_Witness ==
    /\ op = "download" /\ Resolved /\ conn.ended
    /\ Len(ids) = 2 /\ Len(promise.value[1]) = 2
    /\ \E j \in 1..Len(log) : log[j].kind = "write" /\ log[j].outcome = "ok"
    /\ \E j \in 1..Len(log) : log[j].outcome \in {"error", "notfound"}

(***************************************************************************)
(* C27: the identifiers of a batch are processed one after another.  An    *)
(* exchange for the identifier at position i is issued only when the       *)
(* records of the i-1 identifiers before it have been pushed, and while it *)
(* is outstanding no further record is pushed; the exchanges appear in the *)
(* history in the order of the identifiers, and after an outstanding       *)
(* exchange there are only exchanges of the same identifier, so that those *)
(* of one identifier are all settled before the first of the next; and the *)
(* session is ended only when every identifier has its record.             *)
(***************************************************************************)
Pushed == Len(run.results)

C27_IdentifiersStrictlySequential ==
    Batch =>
        /\ \A j \in 1..Len(log) :
              log[j].idx >= 1 =>
                  /\ Pushed >= log[j].idx - 1
                  /\ log[j].outcome = "pending" => Pushed = log[j].idx - 1
        /\ \A j \in 1..(Len(log) - 1) : log[j].idx <= log[j + 1].idx
        /\ \A j \in 1..Len(log) :
              log[j].outcome = "pending"
                  => \A k \in (j + 1)..Len(log) : log[k].idx = log[j].idx
        /\ conn.ended => Pushed = Len(ids) /\ NothingOutstanding

C27_Witness ==
    /\ Batch /\ Len(ids) = 2 /\ Pushed = 1
    /\ run.results[1].found
    /\ \E j \in 1..Len(log) : log[j].idx = 2 /\ log[j].outcome = "pending"
    /\ \E j \in 1..Len(log) : log[j].idx = 1 /\ log[j].kind = "parse"
    /\ ~conn.ended

(***************************************************************************)
(* C28: for each identifier of a batch at most one fetch is ever issued;   *)
(* once the identifier has its record, exactly one fetch was issued if the *)
(* identifier resolved to a uid and none if it did not.  A uid identifier  *)
(* causes no search; a message-id identifier causes at most two, and       *)
(* exactly one when the first candidate matched.                           *)
(***************************************************************************)
Searches(i) == Ordered(ExchangesOf("search", i))

\* the identifier at position i resolved to a uid
ResolvedToUid(i) ==
    IF idType = "uid" THEN ~Falsy(ParseUid(ids[i]))
    ELSE \E s \in ExchangesOf("search", i) :
            log[s].answer # <<>> /\ log[s].answer[1] # 0

C28_OneFetchPerResolvedIdentifier ==
    Batch =>
        \A i \in 1..Len(ids) :
            LET fetches == Cardinality(ExchangesOf("fetch", i))
                S == Searches(i)
            IN  /\ fetches <= 1
                /\ fetches > 0 => ResolvedToUid(i)
                /\ i <= Pushed => fetches = (IF ResolvedToUid(i) THEN 1 ELSE 0)
                /\ idType = "uid" => S = <<>>
                /\ idType = "message-id" =>
                      /\ Len(S) <= 2
                      /\ Len(S) >= 1 /\ log[S[1]].answer # <<>> => Len(S) = 1

\* a batch of two message-ids: the first resolved by its first search,
\* the second not resolved by either of its two
C28_Witness ==
    /\ Batch /\ idType = "message-id" /\ Len(ids) = 2 /\ Pushed = 2
    /\ Len(Searches(1)) = 1 /\ Cardinality(ExchangesOf("fetch", 1)) = 1
    /\ Len(Searches(2)) = 2 /\ ExchangesOf("fetch", 2) = {}
    /\ ~ResolvedToUid(2)

(***************************************************************************)
(* C29: when a header search of the resolution of an identifier ends with  *)
(* a transport error, it is the last exchange of that identifier: no       *)
(* candidate is searched after it (neither the same one again nor the      *)
(* remaining one) and no fetch is issued; the record of the identifier is  *)
(* pushed at once, and it is a failure whose error is the message of the   *)
(* transport error, not a plain not-found.                                 *)
(***************************************************************************)
SearchFailedAt(i) == { s \in ExchangesOf("search", i) : log[s].outcome = "error" }

C29_SearchErrorIsFinalForIdentifier ==
    Batch =>
        \A i \in 1..Len(ids) :
            \A s \in SearchFailedAt(i) :
                /\ \A j \in 1..Len(log) : log[j].idx = i => j <= s
                /\ ExchangesOf("fetch", i) = {}
                /\ Pushed >= i
                /\ ~run.results[i].found
                /\ run.results[i].error = Some(<<"ESEARCH">>)
                /\ run.results[i] # NotFoundRecord(ids[i])

\* the first search of an identifier with two candidates failed, and the
\* batch went on to the next identifier
C29_Witness ==
    /\ Batch /\ idType = "message-id" /\ Len(ids) = 2
    /\ Len(buildMessageIdCandidates(ids[1])) = 2
    /\ Cardinality(ExchangesOf("search", 1)) = 1
    /\ SearchFailedAt(1) # {}
    /\ ExchangesOf("search", 2) # {}
    /\ run.results[1].error = Some(<<"ESEARCH">>)

(***************************************************************************)
(* C30: the candidates of a message-id.  The input is taken without its    *)
(* surrounding whitespace.  When nothing is left there is no candidate:    *)
(* the identifier is not found and the store is never searched for it.     *)
(* The input "<>" has the one candidate "<>".  Every other input has two   *)
(* candidates, the form in angle brackets first and the form without them  *)
(* second.  The searches of the identifier are for its candidates, in      *)
(* that order.                                                             *)
(***************************************************************************)
EmptyBrackets == <<"<", ">">>

InBrackets(t) == <<"<">> \o t \o <<">">>

C30_CandidatesOfMessageId ==
    Batch /\ idType = "message-id" =>
        \A i \in 1..Len(ids) :
            LET t == Trim(ids[i])
                c == buildMessageIdCandidates(ids[i])
                S == Searches(i)
            IN  /\ t = <<>> =>
                      /\ c = <<>>
                      /\ ExchangesOf("search", i) = {} /\ ExchangesOf("fetch", i) = {}
                      /\ i <= Pushed => run.results[i] = NotFoundRecord(ids[i])
                /\ t = EmptyBrackets => c = <<EmptyBrackets>>
                /\ t # <<>> /\ t # EmptyBrackets =>
                      /\ Len(c) = 2
                      /\ Bracketed(c[1])
                      /\ \/ c[1] = t /\ InBrackets(c[2]) = t
                         \/ c[1] = InBrackets(t) /\ c[2] = t /\ ~Bracketed(t)
                /\ Len(S) <= Len(c)
                /\ \A k \in 1..Len(S) : log[S[k]].arg.value = c[k]

\* a batch of a whitespace-only identifier and one with whitespace around
\* it: no search for the first, two for the second
C30_Witness ==
    /\ Batch /\ idType = "message-id" /\ Len(ids) = 2 /\ Pushed = 2
    /\ ids[1] = <<" ">> /\ ids[2] = <<" ", "a", " ">>
    /\ ExchangesOf("search", 1) = {}
    /\ ~run.results[1].found
    /\ Len(Searches(2)) = 2
    /\ log[Searches(2)[1]].arg.value = <<"<", "a", ">">>
    /\ log[Searches(2)[2]].arg.value = <<"a">>

(***************************************************************************)
(* C31: classification keeps the order and has no state.  The attachments  *)
(* selected from a list are those the filter selects when it is applied to *)
(* each of them alone, in their original order: the verdict on an          *)
(* attachment does not depend on the attachments evaluated before it,      *)
(* whatever nameRegexFlags are given (g and y included).                   *)
(***************************************************************************)
SelectedAlone(attachment) == FilterSeq(<<attachment>>) = <<attachment>>

C31_VerdictIndependentOfHistory ==
    call.fn = "filter" /\ ret # None /\ ret[1].threw = None
        => ret[1].selected = SelectSeq(call.attachments, SelectedAlone)

(***************************************************************************)
(* C32: every file written to temporary storage during a                   *)
(* downloadAttachments batch is referenced by the savedTo field of an      *)
(* attachment result of the returned list; in particular no file is left   *)
(* for an identifier whose record has found = false.                       *)
(***************************************************************************)
SavedPathsOf(record) ==
    { record.attachments[n].savedTo[1] :
        n \in { k \in 1..Len(record.attachments) : record.attachments[k].savedTo # None } }

ReferencedPaths == UNION { SavedPathsOf(promise.value[1][i]) : i \in 1..Len(promise.value[1]) }

C32_EveryWrittenFileIsReferenced ==
    op = "download" /\ Resolved => \A f \in tmp : f.path \in ReferencedPaths

(***************************************************************************)
(* C33.  For every attachment name, the names with "/" or "\", ".." and    *)
(* traversals among them, the path writeAttachmentToTemp writes to is a    *)
(* direct child of the temporary directory: it is the directory, one "/",  *)
(* and one name that holds no separator and is neither "." nor "..", and   *)
(* in that name every separator of the attachment name is an underscore.   *)
(***************************************************************************)
Separators == { "/", "\\" }

ChildName(path) == SubSeq(path, Len(TmpDir) + 2, Len(path))

DirectChildOfTmp(path) ==
    /\ Len(path) > Len(TmpDir) + 1
    /\ SubSeq(path, 1, Len(TmpDir) + 1) = TmpDir \o <<"/">>
    /\ \A k \in 1..Len(ChildName(path)) : ChildName(path)[k] \notin Separators
    /\ ChildName(path) \notin { <<".">>, <<".", ".">> }

SeparatorsReplaced(filename, token, name) ==
    /\ Len(name) = Len(token) + 1 + Len(filename)
    /\ \A k \in 1..Len(filename) :
          name[Len(token) + 1 + k] = IF filename[k] \in Separators THEN "_" ELSE filename[k]

MetadataOnly(attachment) == DOMAIN attachment = {"filename", "contentType", "size"}

PeekRecordShape(record) ==
    /\ record.attachmentCount = Some(Len(record.attachments))
    /\ \A k \in 1..Len(record.attachments) : MetadataOnly(record.attachments[k])

C34_PeekWritesNothingAndReturnsMetadata ==
    op = "peek" =>
        /\ tmp = {}
        /\ \A e \in 1..Len(log) : log[e].kind # "write"
        /\ \A i \in 1..Len(run.results) : PeekRecordShape(run.results[i])
        /\ Resolved => \A i \in 1..Len(promise.value[1]) : PeekRecordShape(promise.value[1][i])

\* a peek has returned the inventory of a message with three attachments
C34_Witness ==
    /\ op = "peek"
    /\ Resolved
    /\ \E i \in 1..Len(promise.value[1]) :
          /\ promise.value[1][i].found
          /\ promise.value[1][i].attachmentCount = Some(3)
          /\ Len(promise.value[1][i].attachments) = 3

(***************************************************************************)
(* C35.  The shape of the records of downloadAttachments and peekMessages: *)
(* the record at position i carries the i-th identifier, the identifier    *)
(* kind and the mailbox; a record with found=true carries as uid the       *)
(* decimal string of the handle that was fetched for it; a record with     *)
(* found=false carries no uid and an empty attachments list.               *)
(***************************************************************************)
FetchedHandles(i) == { log[j].arg.uid : j \in ExchangesOf("fetch", i) }

RecordShape(record, i) ==
    /\ record.id = ids[i]
    /\ record.idType = idType
    /\ record.mailbox = Mailbox
    /\ record.found =>
          /\ record.uid # None
          /\ FetchedHandles(i) # {}
          /\ \A h \in FetchedHandles(i) : record.uid = Some(NatToString(h))
    /\ ~record.found =>
          /\ record.uid = None
          /\ record.attachments = <<>>

C35_RecordShape ==
    Batch =>
        /\ \A i \in 1..Len(run.results) : RecordShape(run.results[i], i)
        /\ Resolved => \A i \in 1..Len(promise.value[1]) : RecordShape(promise.value[1][i], i)

\* a uid batch returned: "2x" found under the handle 2, then a record not
\* found after its fetch failed
C35_Witness ==
    /\ Batch /\ Resolved /\ idType = "uid"
    /\ Len(promise.value[1]) = 2
    /\ promise.value[1][1].found
    /\ promise.value[1][1].id = <<"2", "x">>
    /\ promise.value[1][1].uid = Some(<<"2">>)
    /\ ~promise.value[1][2].found
    /\ promise.value[1][2].error # None

(***************************************************************************)
(* C36.  Every 'error' event the connection emits finds a listener: no     *)
(* sequence of connection events, an error after the mailbox is open or a  *)
(* second error after a first included, is an unhandled 'error' event.     *)
(***************************************************************************)
C36_EveryErrorEventHasListener == conn.state # "crashed"

(***************************************************************************)
(* C37.  One identifier space.  The id of every message listMessages and   *)
(* searchMessages return is the decimal string of the store UID of that    *)
(* message (the UID in the attributes the store delivered with it), not    *)
(* its sequence number; and getMessageContent, and downloadAttachments and *)
(* peekMessages with idType uid, given the decimal string of a store UID,  *)
(* fetch by UID exactly that UID.                                          *)
(***************************************************************************)
Listed == IF op = "list" THEN promise.value[1] ELSE promise.value[1].messages

ListedIdIsUid(message) ==
    \E n \in 1..fx.sent :
        /\ fx.uids[n] \in StoreUids
        /\ message.id = NatToString(fx.uids[n])
        /\ message.date = DateOf(fx.uids[n])

C37_ListedIdIsTheUidFetched ==
    /\ op \in {"list", "search"} /\ Resolved =>
          \A k \in 1..Len(Listed) : ListedIdIsUid(Listed[k])
    /\ op \in {"content", "download", "peek"} /\ idType = "uid" =>
          \A i \in 1..Len(ids) : \A u \in StoreUids :
              ids[i] = NatToString(u) =>
                  \A j \in ExchangesOf("fetch", i) : log[j].arg.uid = u

\* the listing returned the message whose UID is above every sequence number
C37_Witness ==
    /\ op = "list"
    /\ Resolved
    /\ Len(Listed) = MaxMessages
    /\ \E k \in 1..Len(Listed) : Listed[k].id = NatToString(UidOfSeq(MaxMessages))

(***************************************************************************)
(* C38.  The body getMessageContent selects.  A fetch that ended without a *)
(* message throws 'Message not found' and gives no body.  Otherwise format *)
(* raw gives the raw bytes read as text and the decoder is not called;     *)
(* format html gives the first available of the HTML body, the text        *)
(* rendered as HTML and the plain text, else the empty string; format text *)
(* gives the plain text when there is one, and the HTML-to-text derivation *)
(* of the HTML body (or else of the text rendered as HTML) only when there *)
(* is no plain text, else the empty string.                                *)
(***************************************************************************)
Present(o) == o # None /\ o[1] # <<>>

BodyOfHtmlFormat(parsed, body) ==
    /\ Present(parsed.html) => body = parsed.html[1]
    /\ ~Present(parsed.html) /\ Present(parsed.textAsHtml) => body = parsed.textAsHtml[1]
    /\ ~Present(parsed.html) /\ ~Present(parsed.textAsHtml) /\ Present(parsed.text)
          => body = parsed.text[1]
    /\ ~Present(parsed.html) /\ ~Present(parsed.textAsHtml) /\ ~Present(parsed.text)
          => body = <<>>

BodyOfTextFormat(parsed, body) ==
    /\ Present(parsed.text) => body = parsed.text[1]
    /\ ~Present(parsed.text) /\ Present(parsed.html) => body = htmlToText(parsed.html[1])
    /\ ~Present(parsed.text) /\ ~Present(parsed.html) /\ Present(parsed.textAsHtml)
          => body = htmlToText(parsed.textAsHtml[1])
    /\ ~Present(parsed.text) /\ ~Present(parsed.html) /\ ~Present(parsed.textAsHtml)
          => body = <<>>

C38_BodySelection ==
    call.fn = "finalize" /\ ret # None =>
        /\ ~call.foundMessage =>
              /\ ret[1].threw = Some(<<"Message not found for id: ", call.id>>)
              /\ ret[1].body = None
              /\ ~ret[1].decoded
        /\ call.foundMessage =>
              /\ ret[1].threw = None
              /\ ret[1].body # None
              /\ params.format = "raw" =>
                    ret[1].body[1] = [utf8 |-> call.raw] /\ ~ret[1].decoded
              /\ params.format = "html" => BodyOfHtmlFormat(call.parsed, ret[1].body[1])
              /\ params.format = "text" => BodyOfTextFormat(call.parsed, ret[1].body[1])

\* plain text was asked for a message that has an HTML body only: the body
\* is the derivation of the HTML
C38_Witness ==
    /\ call.fn = "finalize" /\ ret # None
    /\ call.foundMessage /\ params.format = "text"
    /\ call.parsed.text = None /\ call.parsed.html = Some(<<"<", "b", ">", "x", "<", "/", "b", ">">>)
    /\ ret[1].body = Some(<<"x">>)

====
